---- MODULE Spec2Model ----
(***************************************************************************)
(* A model of the phable command line client: one CLI invocation running   *)
(* one command (create, assign, move, comment, subscribe, tag, parent,     *)
(* report-done-tasks) against the remote Phabricator API.                  *)
(*                                                                         *)
(* The repository holds three generations of the commands:                 *)
(*   "phable_cli"  src/phable_cli/cli.py                                   *)
(*   "phable"      src/phable/cli.py                                       *)
(*   "pkg"         src/phable/cli/{move,tag,parent}.py                     *)
(* args.impl names the generation whose command is run.                    *)
(*                                                                         *)
(* The PhabricatorClient (phabricator.py) and the cache (cache.py) are not *)
(* part of the sources at hand; what the commands need of them is modelled *)
(* from the specification of the client.                                   *)
(*                                                                         *)
(* Strings the code inspects (column names, tags, titles, user names) are  *)
(* sequences of one-character strings; PHIDs are sequences of strings.     *)
(***************************************************************************)
EXTENDS Integers, Sequences, FiniteSets, TLC

VARIABLES
    args,    \* the parsed command line: command, generation, options
    pc,      \* position inside the command's handler
    loc,     \* the handler's local variables
    calls,   \* every PhabricatorClient method invocation so far, in order
    cache,   \* the in-memory identifier cache
    status,  \* "running" | "ok" | "fail" (ctx.fail) | "crash" (uncaught exception)
    msg,     \* the error message: its text and the value interpolated in it
    out,     \* what click.echo printed, in order
    file,    \* the cache file on disk
    fs_ops,  \* what was done to the cache file so far, in order
    atexit,  \* the functions registered to run when the interpreter exits
    peer,    \* another invocation of the CLI that runs at the same time
    call,    \* a function of the program called on its own, with its arguments
    ret      \* what that function returned

vars == <<args, pc, loc, calls, cache, status, msg, out, file, fs_ops, atexit, peer, call, ret>>

\* what the handlers of the commands leave alone
others == <<file, fs_ops, atexit, peer, call, ret>>

---------------------------------------------------------------------------
(* Bounds of the model *)

MaxTasks == 2
MaxTags == 2
MaxCc == 2
MaxColumns == 3
MaxFields == 3
MaxItems == 2
MaxArgs == 3
MaxTaskNumber == 120
MaxLeading == 3

---------------------------------------------------------------------------
(* Python values *)

\* Python's None; no string of the model is this sequence
None == <<"<None>">>

\* str(None), as an f-string interpolates it
NoneStr == <<"N", "o", "n", "e">>

\* str(v) for a string or None
Str(v) == IF v = None THEN NoneStr ELSE v

\* a result that is used without being tested
Unchecked(v) == TRUE

\* truthiness of a string or None
Truthy(v) == v # None /\ v # <<>>

LowerChar(c) ==
    CASE c = "B" -> "b"
      [] c = "D" -> "d"
      [] c = "E" -> "e"
      [] c = "I" -> "i"
      [] c = "N" -> "n"
      [] c = "O" -> "o"
      [] c = "P" -> "p"
      [] c = "R" -> "r"
      [] OTHER -> c

\* str.lower()
lower(s) == [k \in DOMAIN s |-> LowerChar(s[k])]

Whitespace == {" "}

RECURSIVE lstrip(_)
lstrip(s) == IF s # <<>> /\ Head(s) \in Whitespace THEN lstrip(Tail(s)) ELSE s

RECURSIVE rstrip(_)
rstrip(s) == IF s # <<>> /\ s[Len(s)] \in Whitespace THEN rstrip(SubSeq(s, 1, Len(s) - 1)) ELSE s

\* str.strip()
strip(s) == rstrip(lstrip(s))

\* the characters \w matches, among those the model writes names with
WordChars == {"a", "b", "c", "l", "o", "x", "_"}

\* [\w\s\.-]
ParentChars == WordChars \cup Whitespace \cup {".", "-"}

\* [\w\s+\.-]
SubprojectChars == WordChars \cup Whitespace \cup {"+", ".", "-"}

\* The ways r"(?P<parent>[\w\s\.-]+) \((?P<subproject>[\w\s+\.-]+)\)" matches at
\* the start of the tag: <<p, s>> are the lengths of the two groups.
TagMatches(tag) ==
    {m \in (1..Len(tag)) \X (1..Len(tag)) :
        /\ m[1] + m[2] + 3 <= Len(tag)
        /\ \A k \in 1..m[1] : tag[k] \in ParentChars
        /\ tag[m[1] + 1] = " "
        /\ tag[m[1] + 2] = "("
        /\ \A k \in (m[1] + 3)..(m[1] + m[2] + 2) : tag[k] \in SubprojectChars
        /\ tag[m[1] + m[2] + 3] = ")"}

\* re.match(...) is not None
tag_matches(tag) == TagMatches(tag) # {}

\* the groups of the match: both quantifiers are greedy
match_group(tag) ==
    LET m == CHOOSE m \in TagMatches(tag) :
                 \A n \in TagMatches(tag) :
                     m[1] > n[1] \/ (m[1] = n[1] /\ m[2] >= n[2])
    IN  [parent |-> SubSeq(tag, 1, m[1]),
         subproject |-> SubSeq(tag, m[1] + 3, m[1] + m[2] + 2)]

\* a mapping that puts a new key first
SetItem_first(d, name, value) ==
    IF \E k \in DOMAIN d : d[k].name = name
    THEN [k \in DOMAIN d |-> IF d[k].name = name THEN [name |-> name, value |-> value] ELSE d[k]]
    ELSE <<[name |-> name, value |-> value]>> \o d

\* d[name] = value on a dict, which keeps the order its keys were first set in
SetItem(d, name, value) ==
    IF \E k \in DOMAIN d : d[k].name = name
    THEN [k \in DOMAIN d |-> IF d[k].name = name THEN [name |-> name, value |-> value] ELSE d[k]]
    ELSE Append(d, [name |-> name, value |-> value])

DefaultProjectPhid == <<"PHID-PROJ", "default">>   \* config.phabricator_default_project_phid
OtherProjectPhid == <<"PHID-PROJ", "other">>       \* a --project-phid given on the command line

---------------------------------------------------------------------------
(* The PhabricatorClient and its cache, as the commands see them *)

\* client methods whose result is memoized by (method, arguments)
CachedOps ==
    {"find_user_by_username", "find_project_by_title", "show_tag",
     "find_column_in_project", "get_main_project_or_milestone", "current_user"}

Cached(op, name, scope) ==
    /\ op \in CachedOps
    /\ \E e \in cache : e.op = op /\ e.name = name /\ e.scope = scope

CachedValue(op, name, scope) ==
    (CHOOSE e \in cache : e.op = op /\ e.name = name /\ e.scope = scope).value

\* the kinds of exception a failed remote call raises: the handler of
\* move_task catches ValueError and nothing else
TransportErrors == {"ValueError", "Other"}

\* The outcomes of a lookup answered by the cache or else by the remote API:
\* the entity is found (its identifier is `found`), it is not found (the
\* method returns None, or raises ValueError when `raises`), or the call fails.
Lookup(op, name, scope, found, raises) ==
    IF Cached(op, name, scope)
    THEN {[value |-> CachedValue(op, name, scope), outcome |-> "found",
           exc |-> "", remote |-> FALSE]}
    ELSE {[value |-> found, outcome |-> "found", exc |-> "", remote |-> TRUE],
          [value |-> None, outcome |-> "notfound",
           exc |-> IF raises THEN "ValueError" ELSE "", remote |-> TRUE]}
         \cup {[value |-> None, outcome |-> "error", exc |-> e, remote |-> TRUE] :
                 e \in TransportErrors}

\* The outcomes of a transaction submitted to the remote API
Submit ==
    {[value |-> None, outcome |-> "ok", exc |-> "", remote |-> TRUE]}
    \cup {[value |-> None, outcome |-> "error", exc |-> e, remote |-> TRUE] :
            e \in TransportErrors}

\* the call log after one more client method invocation
Logged(op, name, scope, task, value, params, r) ==
    Append(calls, [op |-> op, name |-> name, scope |-> scope, task |-> task,
                   value |-> value, params |-> params,
                   outcome |-> r.outcome, remote |-> r.remote])

\* the cache after a lookup: positive remote results are kept, nothing else
Remembered(op, name, scope, r) ==
    IF op \in CachedOps /\ r.remote /\ r.outcome = "found"
    THEN cache \cup {[op |-> op, name |-> name, scope |-> scope, value |-> r.value]}
    ELSE cache

UserPhid(username) == <<"PHID-USER">> \o username
ProjectPhid(title, parent_phid) ==
    <<"PHID-PROJ">> \o (IF parent_phid = None THEN <<>> ELSE parent_phid \o <<"/">>) \o title
ColumnPhid(board, name) == <<"PHID-PCOL">> \o board \o <<":">> \o lower(name)
TaskPhid(task_id) == <<"PHID-TASK", ToString(task_id)>>
MilestonePhid(project_phid) == project_phid \o <<"milestone">>

\* the column lists a board may have when its milestone is looked for
MilestoneColumnLists(project_phid) ==
    { <<[hidden |-> TRUE, proxy |-> project_phid \o <<"old">>],
        [hidden |-> FALSE, proxy |-> None],
        [hidden |-> FALSE, proxy |-> MilestonePhid(project_phid)]>>,
      <<[hidden |-> FALSE, proxy |-> MilestonePhid(project_phid)],
        [hidden |-> FALSE, proxy |-> project_phid \o <<"next">>]>>,
      <<[hidden |-> TRUE, proxy |-> MilestonePhid(project_phid)],
        [hidden |-> FALSE, proxy |-> None]>>,
      <<>> }

\* the proxy of the first column that is visible and has one, or None
get_project_current_milestone(columns) ==
    LET ok == {k \in DOMAIN columns : ~columns[k].hidden /\ columns[k].proxy # None}
    IN  IF ok = {} THEN None
        ELSE columns[CHOOSE k \in ok : \A j \in ok : k <= j].proxy

\* the board a command works on: the project itself, or its current milestone
get_main_project_or_milestone(milestone, project_phid) ==
    IF ~milestone
    THEN {[value |-> project_phid, outcome |-> "found", exc |-> "", remote |-> FALSE]}
    ELSE IF Cached("get_main_project_or_milestone", <<>>, project_phid)
    THEN {[value |-> CachedValue("get_main_project_or_milestone", <<>>, project_phid),
           outcome |-> "found", exc |-> "", remote |-> FALSE]}
    ELSE {LET m == get_project_current_milestone(columns)
          IN  IF m = None
              THEN [value |-> None, outcome |-> "notfound", exc |-> "ValueError",
                    remote |-> TRUE]
              ELSE [value |-> m, outcome |-> "found", exc |-> "", remote |-> TRUE] :
            columns \in MilestoneColumnLists(project_phid)}
         \cup {[value |-> None, outcome |-> "error", exc |-> e, remote |-> TRUE] :
                 e \in TransportErrors}

\* a column of the board by its name, compared case-insensitively
find_column_in_project(board, name) ==
    Lookup("find_column_in_project", name, board, ColumnPhid(board, name), TRUE)

\* a project by its title, among the subprojects of parent_phid when given
find_project_by_title(title, parent_phid) ==
    Lookup("find_project_by_title", title, parent_phid, ProjectPhid(title, parent_phid), FALSE)

find_user_by_username(username) ==
    Lookup("find_user_by_username", username, None, UserPhid(username), FALSE)

\* the user the API token belongs to
current_user ==
    Lookup("current_user", <<>>, None, <<"PHID-USER", "me">>, FALSE)

\* a tag (project) by its name; no tag answers to a name left out
show_tag(tag_name) ==
    {r \in Lookup("show_tag", tag_name, None, ProjectPhid(tag_name, None), FALSE) :
        tag_name # None \/ r.outcome # "found"}

\* a task with its author, owner, tags, subtasks and parent fetched
enrich_task(task) ==
    {[value |-> TaskPhid(task), outcome |-> "found", exc |-> "", remote |-> TRUE]}
    \cup {[value |-> None, outcome |-> "error", exc |-> e, remote |-> TRUE] :
            e \in TransportErrors}

\* the task lists a column may hold
ColumnTasks == {<<>>, <<1>>, <<2, 1>>}

\* the tasks of a column, in the order the API returns them
find_tasks_in_column(column_phid) ==
    {[value |-> ts, outcome |-> "found", exc |-> "", remote |-> TRUE] : ts \in ColumnTasks}
    \cup {[value |-> <<>>, outcome |-> "error", exc |-> e, remote |-> TRUE] :
            e \in TransportErrors}

\* a task by its number
show_task(name) ==
    Lookup("show_task", name, None, <<"PHID-TASK">> \o name, FALSE)

---------------------------------------------------------------------------
(* The command line *)

Implementations == {"phable_cli", "phable", "pkg"}

Done == <<"D", "o", "n", "e">>
DONE == <<"D", "O", "N", "E">>
InProgress == <<"I", "n", " ", "P", "r", "o", "g", "r", "e", "s", "s">>
NeedsReview == <<"n", "e", "e", "d", "s", " ", "R", "E", "V", "I", "E", "W">>
Backlog == <<"B", "a", "c", "k", "l", "o", "g">>
Reported == <<"R", "e", "p", "o", "r", "t", "e", "d">>

ColumnNames == {Done, DONE, InProgress, NeedsReview, Backlog}

TaskIds == {1, 2}

\* the non-empty task lists of a variadic, required task-ids argument
TaskLists == UNION {[1..n -> TaskIds] : n \in 1..MaxTasks}

NoArgs ==
    [cmd |-> "", impl |-> "", task_ids |-> <<>>, column |-> None, milestone |-> FALSE,
     project_phid |-> None, tags |-> <<>>, owner |-> None, cc |-> <<>>,
     parent_id |-> 0, username |-> None, tag |-> None,
     source |-> None, destination |-> None, template |-> "", format |-> "plain"]

NoLocals ==
    [i |-> 1, target_project_phid |-> None, target_column_phid |-> None,
     task_params |-> <<>>, tag_projects_phids |-> <<>>, parent_project_phid |-> None,
     parent_project |-> None, cc_phids |-> <<>>, user |-> None, tag |-> None,
     parent |-> None, column_source_phid |-> None, column_destination_phid |-> None,
     tasks |-> <<>>]

MoveArgs ==
    {[NoArgs EXCEPT !.cmd = "move", !.impl = impl, !.task_ids = ts, !.column = c,
                    !.milestone = m, !.project_phid = p] :
        impl \in Implementations, ts \in TaskLists, c \in ColumnNames,
        m \in BOOLEAN, p \in {None, OtherProjectPhid}}

Alice == <<"a", "l">>
Bob == <<"b", "o">>
Usernames == {Alice, Bob}

\* --tags values: a flat title, "parent (subproject)", a title the pattern does
\* not match, and a match with padding, a "+" and text after the ")"
FlatTag == <<"a">>
SubprojectTag == <<"a", " ", "(", "b", ")">>
UnmatchedTag == <<"a", "(", "b", ")">>
PaddedTag == <<"a", " ", " ", "(", "b", "+", " ", ")", "x">>
TagNames == {FlatTag, SubprojectTag, UnmatchedTag, PaddedTag}

\* the lists a repeatable option (multiple=True) can hold, up to n items
Lists(S, n) == UNION {[1..k -> S] : k \in 0..n}

\* --parent-id, as Task.from_str leaves it: a task number, 0 when not given
ParentIds == {0, 2}

CreateArgs ==
    {[NoArgs EXCEPT !.cmd = "create", !.impl = impl, !.tags = tags, !.owner = owner,
                    !.cc = cc, !.parent_id = parent_id] :
        impl \in {"phable_cli", "phable"}, tags \in Lists(TagNames, MaxTags),
        owner \in {None} \cup Usernames, cc \in Lists(Usernames, MaxCc),
        parent_id \in ParentIds}

AssignArgs ==
    {[NoArgs EXCEPT !.cmd = "assign", !.impl = impl, !.task_ids = ts, !.username = u] :
        impl \in {"phable_cli", "phable"}, ts \in TaskLists, u \in {None} \cup Usernames}

SubscribeArgs ==
    {[NoArgs EXCEPT !.cmd = "subscribe", !.impl = impl, !.task_ids = ts] :
        impl \in {"phable_cli", "phable"}, ts \in TaskLists}

CommentArgs ==
    {[NoArgs EXCEPT !.cmd = "comment", !.impl = impl, !.task_ids = <<t>>] :
        impl \in {"phable_cli", "phable"}, t \in TaskIds}

\* the task-ids of tag are variadic and not required; --tag may be left out
TagArgs ==
    {[NoArgs EXCEPT !.cmd = "tag", !.impl = "pkg", !.task_ids = ts, !.tag = t] :
        ts \in Lists(TaskIds, MaxTasks), t \in {None, FlatTag, SubprojectTag}}

ParentArgs ==
    {[NoArgs EXCEPT !.cmd = "parent", !.impl = "pkg", !.task_ids = ts, !.parent_id = p] :
        ts \in TaskLists, p \in ParentIds}

ReportArgs ==
    {[NoArgs EXCEPT !.cmd = "report-done-tasks", !.impl = "phable", !.milestone = m,
                    !.source = src, !.destination = dst, !.format = f] :
        m \in BOOLEAN, src \in {Done}, dst \in {Reported, DONE}, f \in {"plain", "json"}}

\* --project-phid is an option of the move command of phable/cli/move.py only
Commands ==
    {a \in MoveArgs : a.project_phid = None \/ a.impl = "pkg"}
    \cup CreateArgs
    \cup {[NoArgs EXCEPT !.cmd = "create", !.impl = impl, !.template = "missing",
                         !.tags = <<FlatTag>>] : impl \in {"phable_cli", "phable"}}
    \cup AssignArgs \cup SubscribeArgs \cup CommentArgs \cup TagArgs \cup ParentArgs
    \cup ReportArgs

NoMessage == [text |-> "", value |-> <<>>]

\* the cache file: missing, unparsable, or holding the serialized mapping
Missing == [state |-> "missing", entries |-> {}]
Corrupt == [state |-> "corrupt", entries |-> {}]
Stored(entries) == [state |-> "stored", entries |-> entries]

\* the function runcli registers with atexit
cache_dump == "cache.dump"

\* no other invocation runs
NoPeer == [pc |-> "none", cache |-> {}]

\* no function is called on its own
NoCall == [fn |-> ""]

\* a command about to run its handler in a process of its own: the cache is
\* cold, its dump is registered with atexit, and nobody else uses the file
Init ==
    /\ args \in Commands
    /\ pc = args.cmd
    /\ loc = NoLocals
    /\ calls = <<>>
    /\ cache = {}
    /\ status = "running"
    /\ msg = NoMessage
    /\ out = <<>>
    /\ file = Missing
    /\ fs_ops = <<>>
    /\ atexit = {cache_dump}
    /\ peer = NoPeer
    /\ call = NoCall
    /\ ret = None

---------------------------------------------------------------------------
(* How a command ends *)

\* the handler returns: exit status 0
Return ==
    /\ status' = "ok"
    /\ pc' = "exit"
    /\ UNCHANGED msg

\* ctx.fail(message): click reports a usage error, exit status 2
ctx_fail(text, value) ==
    /\ status' = "fail"
    /\ pc' = "exit"
    /\ msg' = [text |-> text, value |-> value]

\* an exception nobody catches: traceback, exit status 1
Crash(exc) ==
    /\ status' = "crash"
    /\ pc' = "exit"
    /\ msg' = [text |-> exc, value |-> <<>>]

---------------------------------------------------------------------------
(* move *)

\* the status transition that follows a move to the column, if any
InProgressColumns(impl) ==
    IF impl = "phable_cli"
    THEN {}
    ELSE {<<"i", "n", " ", "p", "r", "o", "g", "r", "e", "s", "s">>,
          <<"n", "e", "e", "d", "s", " ", "r", "e", "v", "i", "e", "w">>}

\* column.lower() in ("in progress", "needs review")
is_in_progress_column(impl, column) == lower(column) \in InProgressColumns(impl)

\* a comparison that forgets .lower()
is_done_column_case_sensitive(column) == column = <<"d", "o", "n", "e">>

\* column.lower() == "done"
is_done_column(column) == lower(column) = <<"d", "o", "n", "e">>

\* an except clause that swallows the error: the command returns normally
move_task_except_swallow(exc, name) == Return

\* an except clause inside the loop: the batch goes on
move_task_except_continue(exc, name) ==
    /\ pc' = "move:loop"
    /\ UNCHANGED <<status, msg>>

\* try: ... except ValueError as ve: ctx.fail(ve)
move_task_except(exc, name) ==
    IF exc = "ValueError" THEN ctx_fail("ValueError", name) ELSE Crash(exc)

\* a move that ignores --project-phid
base_project_default_only(impl, project_phid) == DefaultProjectPhid

\* project_phid or config.phabricator_default_project_phid
base_project(impl, project_phid) ==
    IF impl = "pkg" /\ Truthy(project_phid) THEN project_phid ELSE DefaultProjectPhid

move_task_board ==
    /\ status = "running" /\ pc = "move"
    /\ LET project_phid == base_project(args.impl, args.project_phid)
       IN \E r \in get_main_project_or_milestone(args.milestone, project_phid) :
            /\ calls' = Logged("get_main_project_or_milestone", <<>>, project_phid, 0,
                               r.value, <<>>, r)
            /\ cache' = Remembered("get_main_project_or_milestone", <<>>, project_phid, r)
            /\ IF r.exc = ""
               THEN /\ loc' = [loc EXCEPT !.target_project_phid = r.value]
                    /\ pc' = "move:column"
                    /\ UNCHANGED <<status, msg>>
               ELSE /\ move_task_except(r.exc, project_phid)
                    /\ UNCHANGED loc
    /\ UNCHANGED <<args, out>>
    /\ UNCHANGED others

move_task_column ==
    /\ status = "running" /\ pc = "move:column"
    /\ \E r \in find_column_in_project(loc.target_project_phid, args.column) :
            /\ calls' = Logged("find_column_in_project", args.column,
                               loc.target_project_phid, 0, r.value, <<>>, r)
            /\ cache' = Remembered("find_column_in_project", args.column,
                                   loc.target_project_phid, r)
            /\ IF r.exc = ""
               THEN /\ loc' = [loc EXCEPT !.target_column_phid = r.value, !.i = 1]
                    /\ pc' = "move:loop"
                    /\ UNCHANGED <<status, msg>>
               ELSE /\ move_task_except(r.exc, args.column)
                    /\ UNCHANGED loc
    /\ UNCHANGED <<args, out>>
    /\ UNCHANGED others

\* for task_id in task_ids: client.move_task_to_column(...)
move_task_move ==
    /\ status = "running" /\ pc = "move:loop"
    /\ IF loc.i > Len(args.task_ids)
       THEN /\ Return
            /\ UNCHANGED <<calls, loc>>
       ELSE \E r \in Submit :
            /\ calls' = Logged("move_task_to_column", <<>>, None, args.task_ids[loc.i],
                               loc.target_column_phid, <<>>, r)
            /\ IF r.exc = ""
               THEN /\ pc' = "move:in_progress"
                    /\ UNCHANGED <<status, msg>>
               ELSE move_task_except(r.exc, <<>>)
            /\ UNCHANGED loc
    /\ UNCHANGED <<args, cache, out>>
    /\ UNCHANGED others

\* if column.lower() in ("in progress", "needs review"): mark_task_as_in_progress
move_task_in_progress ==
    /\ status = "running" /\ pc = "move:in_progress"
    /\ IF is_in_progress_column(args.impl, args.column)
       THEN \E r \in Submit :
            /\ calls' = Logged("mark_task_as_in_progress", <<>>, None,
                               args.task_ids[loc.i], None, <<>>, r)
            /\ IF r.exc = ""
               THEN /\ pc' = "move:resolved"
                    /\ UNCHANGED <<status, msg>>
               ELSE move_task_except(r.exc, <<>>)
       ELSE /\ pc' = "move:resolved"
            /\ UNCHANGED <<calls, status, msg>>
    /\ UNCHANGED <<args, loc, cache, out>>
    /\ UNCHANGED others

\* if column.lower() == "done": mark_task_as_resolved
move_task_resolved ==
    /\ status = "running" /\ pc = "move:resolved"
    /\ IF is_done_column(args.column)
       THEN \E r \in Submit :
            /\ calls' = Logged("mark_task_as_resolved", <<>>, None,
                               args.task_ids[loc.i], None, <<>>, r)
            /\ IF r.exc = ""
               THEN /\ pc' = "move:loop"
                    /\ loc' = [loc EXCEPT !.i = @ + 1]
                    /\ UNCHANGED <<status, msg>>
               ELSE /\ move_task_except(r.exc, <<>>)
                    /\ UNCHANGED loc
       ELSE /\ pc' = "move:loop"
            /\ loc' = [loc EXCEPT !.i = @ + 1]
            /\ UNCHANGED <<calls, status, msg>>
    /\ UNCHANGED <<args, cache, out>>
    /\ UNCHANGED others

move_task ==
    \/ move_task_board
    \/ move_task_column
    \/ move_task_move
    \/ move_task_in_progress
    \/ move_task_resolved

---------------------------------------------------------------------------
(* create *)

Title == <<"t">>
Description == <<"d">>
Priority == <<"n", "o", "r", "m", "a", "l">>

\* task_params = {"title": ..., "description": ..., "priority": ...}
create_task_params ==
    /\ status = "running" /\ pc = "create"
    /\ IF args.template = "missing"
       THEN /\ ctx_fail("Template file {} does not exist", <<>>)
            /\ UNCHANGED loc
       ELSE /\ loc' = [loc EXCEPT !.task_params =
                           <<[name |-> "title", value |-> Title],
                             [name |-> "description", value |-> Description],
                             [name |-> "priority", value |-> Priority]>>,
                                  !.tag_projects_phids = <<>>, !.i = 1]
            /\ pc' = "create:tags"
            /\ UNCHANGED <<status, msg>>
    /\ UNCHANGED <<args, calls, cache, out>>
    /\ UNCHANGED others

\* a default that is added to the tags instead of standing in for them
projects_add_with_default(tag_projects_phids) == Append(tag_projects_phids, DefaultProjectPhid)

\* task_params["projects.add"] = tag_projects_phids or [the default project]
projects_add(tag_projects_phids) ==
    IF tag_projects_phids # <<>> THEN tag_projects_phids ELSE <<DefaultProjectPhid>>

\* ctx.fail(f"Project {parent_project} not found")
parent_not_found(parent_title, parent_project) ==
    ctx_fail("Project {} not found", Str(parent_project))

\* for tag in tags: the parent of "parent (subproject)", or a flat title
create_task_tags ==
    /\ status = "running" /\ pc = "create:tags"
    /\ IF loc.i > Len(args.tags)
       THEN /\ loc' = [loc EXCEPT !.task_params =
                           SetItem(@, "projects.add", projects_add(loc.tag_projects_phids))]
            /\ pc' = "create:owner"
            /\ UNCHANGED <<calls, cache, status, msg>>
       ELSE IF tag_matches(args.tags[loc.i])
       THEN LET parent_title == strip(match_group(args.tags[loc.i]).parent)
            IN \E r \in find_project_by_title(parent_title, None) :
                 /\ calls' = Logged("find_project_by_title", parent_title, None, 0,
                                    r.value, <<>>, r)
                 /\ cache' = Remembered("find_project_by_title", parent_title, None, r)
                 /\ IF r.exc # ""
                    THEN Crash(r.exc) /\ UNCHANGED loc
                    ELSE IF Truthy(r.value)
                    THEN /\ loc' = [loc EXCEPT !.parent_project = r.value,
                                               !.parent_project_phid = r.value]
                         /\ pc' = "create:subproject"
                         /\ UNCHANGED <<status, msg>>
                    ELSE /\ parent_not_found(parent_title, r.value)
                         /\ loc' = [loc EXCEPT !.parent_project = r.value]
       ELSE LET tag == args.tags[loc.i]
            IN \E r \in find_project_by_title(tag, None) :
                 /\ calls' = Logged("find_project_by_title", tag, None, 0, r.value, <<>>, r)
                 /\ cache' = Remembered("find_project_by_title", tag, None, r)
                 /\ IF r.exc # ""
                    THEN Crash(r.exc) /\ UNCHANGED loc
                    ELSE IF Truthy(r.value)
                    THEN /\ loc' = [loc EXCEPT !.tag_projects_phids = Append(@, r.value),
                                               !.i = @ + 1]
                         /\ UNCHANGED <<pc, status, msg>>
                    ELSE /\ ctx_fail("Project {} not found", tag)
                         /\ UNCHANGED loc
    /\ UNCHANGED <<args, out>>
    /\ UNCHANGED others

\* a lookup of the subproject that forgets the parent
subproject_unscoped(parent_project_phid) == None

\* parent_phid=parent_project_phid
subproject_parent(parent_project_phid) == parent_project_phid

\* the subproject, looked up among the subprojects of the parent just found
create_task_subproject ==
    /\ status = "running" /\ pc = "create:subproject"
    /\ LET project_title == strip(match_group(args.tags[loc.i]).subproject)
           parent_phid == subproject_parent(loc.parent_project_phid)
       IN \E r \in find_project_by_title(project_title, parent_phid) :
            /\ calls' = Logged("find_project_by_title", project_title,
                               parent_phid, 0, r.value, <<>>, r)
            /\ cache' = Remembered("find_project_by_title", project_title,
                                   parent_phid, r)
            /\ IF r.exc # ""
               THEN Crash(r.exc) /\ UNCHANGED loc
               ELSE IF Truthy(r.value)
               THEN /\ loc' = [loc EXCEPT !.tag_projects_phids = Append(@, r.value),
                                          !.i = @ + 1]
                    /\ pc' = "create:tags"
                    /\ UNCHANGED <<status, msg>>
               ELSE /\ ctx_fail("Project {} not found", project_title)
                    /\ UNCHANGED loc
    /\ UNCHANGED <<args, out>>
    /\ UNCHANGED others

\* if owner: task_params["owner"] = the user's phid, or ctx.fail
create_task_owner ==
    /\ status = "running" /\ pc = "create:owner"
    /\ IF Truthy(args.owner)
       THEN \E r \in find_user_by_username(args.owner) :
            /\ calls' = Logged("find_user_by_username", args.owner, None, 0, r.value, <<>>, r)
            /\ cache' = Remembered("find_user_by_username", args.owner, None, r)
            /\ IF r.exc # ""
               THEN Crash(r.exc) /\ UNCHANGED loc
               ELSE IF Truthy(r.value)
               THEN /\ loc' = [loc EXCEPT !.task_params = SetItem(@, "owner", r.value)]
                    /\ pc' = "create:parent"
                    /\ UNCHANGED <<status, msg>>
               ELSE /\ ctx_fail("User {} not found", Str(args.owner))
                    /\ UNCHANGED loc
       ELSE /\ pc' = "create:parent"
            /\ UNCHANGED <<loc, calls, cache, status, msg>>
    /\ UNCHANGED <<args, out>>
    /\ UNCHANGED others

\* if parent_id: task_params["parents.set"] = [client.show_task(parent_id)["phid"]]
create_task_parent ==
    /\ status = "running" /\ pc = "create:parent"
    /\ IF args.parent_id # 0
       THEN \E r \in show_task(<<ToString(args.parent_id)>>) :
            /\ calls' = Logged("show_task", <<ToString(args.parent_id)>>, None, 0,
                               r.value, <<>>, r)
            /\ IF r.exc # ""
               THEN Crash(r.exc) /\ UNCHANGED loc
               ELSE IF r.value = None
               THEN Crash("TypeError") /\ UNCHANGED loc
               ELSE /\ loc' = [loc EXCEPT !.task_params = SetItem(@, "parents.set", <<r.value>>),
                                          !.cc_phids = <<>>, !.i = 1]
                    /\ pc' = "create:cc"
                    /\ UNCHANGED <<status, msg>>
       ELSE /\ loc' = [loc EXCEPT !.cc_phids = <<>>, !.i = 1]
            /\ pc' = "create:cc"
            /\ UNCHANGED <<calls, status, msg>>
    /\ UNCHANGED <<args, cache, out>>
    /\ UNCHANGED others

\* ctx.fail(f"User {owner} not found") in the loop over cc
subscriber_not_found(username, owner) ==
    ctx_fail("User {} not found", Str(owner))

\* a loop over cc that asks the remote API for every user, cached or not
create_task_cc_uncached ==
    /\ status = "running" /\ pc = "create:cc"
    /\ IF loc.i > Len(args.cc)
       THEN /\ loc' = [loc EXCEPT !.task_params =
                           IF loc.cc_phids # <<>>
                           THEN SetItem(@, "subscribers.set", loc.cc_phids) ELSE @]
            /\ pc' = "create:submit"
            /\ UNCHANGED <<calls, cache, status, msg>>
       ELSE LET username == args.cc[loc.i]
                r == [value |-> UserPhid(username), outcome |-> "found", exc |-> "",
                      remote |-> TRUE]
            IN /\ calls' = Logged("find_user_by_username", username, None, 0,
                                  r.value, <<>>, r)
               /\ cache' = Remembered("find_user_by_username", username, None, r)
               /\ loc' = [loc EXCEPT !.cc_phids = Append(@, r.value), !.i = @ + 1]
               /\ UNCHANGED <<pc, status, msg>>
    /\ UNCHANGED <<args, out>>
    /\ UNCHANGED others

\* for username in cc: cc_phids.append(the user's phid), or ctx.fail
create_task_cc ==
    /\ status = "running" /\ pc = "create:cc"
    /\ IF loc.i > Len(args.cc)
       THEN /\ loc' = [loc EXCEPT !.task_params =
                           IF loc.cc_phids # <<>>
                           THEN SetItem(@, "subscribers.set", loc.cc_phids) ELSE @]
            /\ pc' = "create:submit"
            /\ UNCHANGED <<calls, cache, status, msg>>
       ELSE LET username == args.cc[loc.i]
            IN \E r \in find_user_by_username(username) :
                 /\ calls' = Logged("find_user_by_username", username, None, 0,
                                    r.value, <<>>, r)
                 /\ cache' = Remembered("find_user_by_username", username, None, r)
                 /\ IF r.exc # ""
                    THEN Crash(r.exc) /\ UNCHANGED loc
                    ELSE IF Truthy(r.value)
                    THEN /\ loc' = [loc EXCEPT !.cc_phids = Append(@, r.value), !.i = @ + 1]
                         /\ UNCHANGED <<pc, status, msg>>
                    ELSE /\ subscriber_not_found(username, args.owner)
                         /\ UNCHANGED loc
    /\ UNCHANGED <<args, out>>
    /\ UNCHANGED others

\* task = client.create_or_edit_task(task_params)
create_task_submit ==
    /\ status = "running" /\ pc = "create:submit"
    /\ \E r \in Submit :
        /\ calls' = Logged("create_or_edit_task", <<>>, None, 0, None, loc.task_params, r)
        /\ IF r.exc # ""
           THEN Crash(r.exc)
           ELSE /\ pc' = "create:show"
                /\ UNCHANGED <<status, msg>>
    /\ UNCHANGED <<args, loc, cache, out>>
    /\ UNCHANGED others

\* ctx.invoke(show_task, task_id=...): print the new task, or that it is not found
create_task_show ==
    /\ status = "running" /\ pc = "create:show"
    /\ \E r \in show_task(<<"new">>) :
        /\ calls' = Logged("show_task", <<"new">>, None, 0, r.value, <<>>, r)
        /\ IF r.exc # ""
           THEN Crash(r.exc) /\ UNCHANGED out
           ELSE /\ Return
                /\ out' = Append(out, [text |-> IF r.value = None THEN "Task {} not found"
                                                ELSE "Task: {}",
                                       value |-> <<"new">>])
    /\ UNCHANGED <<args, loc, cache>>
    /\ UNCHANGED others

create_task ==
    \/ create_task_params
    \/ create_task_tags
    \/ create_task_subproject
    \/ create_task_owner
    \/ create_task_parent
    \/ create_task_cc
    \/ create_task_submit
    \/ create_task_show

---------------------------------------------------------------------------
(* assign, subscribe, comment *)

\* user = client.current_user() or client.find_user_by_username(username)
assign_task_user ==
    /\ status = "running" /\ pc = "assign"
    /\ IF ~Truthy(args.username)
       THEN \E r \in current_user :
            /\ calls' = Logged("current_user", <<>>, None, 0, r.value, <<>>, r)
            /\ cache' = Remembered("current_user", <<>>, None, r)
            /\ IF r.exc # ""
               THEN Crash(r.exc) /\ UNCHANGED loc
               ELSE /\ loc' = [loc EXCEPT !.user = r.value, !.i = 1]
                    /\ pc' = "assign:loop"
                    /\ UNCHANGED <<status, msg>>
       ELSE \E r \in find_user_by_username(args.username) :
            /\ calls' = Logged("find_user_by_username", args.username, None, 0,
                               r.value, <<>>, r)
            /\ cache' = Remembered("find_user_by_username", args.username, None, r)
            /\ IF r.exc # ""
               THEN Crash(r.exc) /\ UNCHANGED loc
               ELSE IF ~Truthy(r.value)
               THEN /\ ctx_fail("User {} was not found", Str(args.username))
                    /\ UNCHANGED loc
               ELSE /\ loc' = [loc EXCEPT !.user = r.value, !.i = 1]
                    /\ pc' = "assign:loop"
                    /\ UNCHANGED <<status, msg>>
    /\ UNCHANGED <<args, out>>
    /\ UNCHANGED others

\* a loop that goes on to the next task when a call fails
assign_task_loop_continue ==
    /\ status = "running" /\ pc = "assign:loop"
    /\ IF loc.i > Len(args.task_ids)
       THEN Return /\ UNCHANGED <<calls, loc>>
       ELSE IF loc.user = None
       THEN Crash("TypeError") /\ UNCHANGED <<calls, loc>>
       ELSE \E r \in Submit :
            /\ calls' = Logged("assign_task_to_user", <<>>, None, args.task_ids[loc.i],
                               loc.user, <<>>, r)
            /\ loc' = [loc EXCEPT !.i = @ + 1]
            /\ UNCHANGED <<pc, status, msg>>
    /\ UNCHANGED <<args, cache, out>>
    /\ UNCHANGED others

\* for task_id in task_ids: client.assign_task_to_user(task_id, user["phid"])
assign_task_loop ==
    /\ status = "running" /\ pc = "assign:loop"
    /\ IF loc.i > Len(args.task_ids)
       THEN Return /\ UNCHANGED <<calls, loc>>
       ELSE IF loc.user = None
       THEN Crash("TypeError") /\ UNCHANGED <<calls, loc>>
       ELSE \E r \in Submit :
            /\ calls' = Logged("assign_task_to_user", <<>>, None, args.task_ids[loc.i],
                               loc.user, <<>>, r)
            /\ IF r.exc # ""
               THEN Crash(r.exc) /\ UNCHANGED loc
               ELSE /\ loc' = [loc EXCEPT !.i = @ + 1]
                    /\ UNCHANGED <<pc, status, msg>>
    /\ UNCHANGED <<args, cache, out>>
    /\ UNCHANGED others

assign_task ==
    \/ assign_task_user
    \/ assign_task_loop

\* user = client.current_user(); if not user: ctx.fail(...)
subscribe_to_task_user ==
    /\ status = "running" /\ pc = "subscribe"
    /\ \E r \in current_user :
        /\ calls' = Logged("current_user", <<>>, None, 0, r.value, <<>>, r)
        /\ cache' = Remembered("current_user", <<>>, None, r)
        /\ IF r.exc # ""
           THEN Crash(r.exc) /\ UNCHANGED loc
           ELSE IF ~Truthy(r.value)
           THEN /\ ctx_fail("Current user was not found", <<>>)
                /\ UNCHANGED loc
           ELSE /\ loc' = [loc EXCEPT !.user = r.value, !.i = 1]
                /\ pc' = "subscribe:loop"
                /\ UNCHANGED <<status, msg>>
    /\ UNCHANGED <<args, out>>
    /\ UNCHANGED others

\* for task_id in task_ids: client.add_user_to_task_subscribers(task_id, user["phid"])
subscribe_to_task_loop ==
    /\ status = "running" /\ pc = "subscribe:loop"
    /\ IF loc.i > Len(args.task_ids)
       THEN Return /\ UNCHANGED <<calls, loc>>
       ELSE \E r \in Submit :
            /\ calls' = Logged("add_user_to_task_subscribers", <<>>, None,
                               args.task_ids[loc.i], loc.user, <<>>, r)
            /\ IF r.exc # ""
               THEN Crash(r.exc) /\ UNCHANGED loc
               ELSE /\ loc' = [loc EXCEPT !.i = @ + 1]
                    /\ UNCHANGED <<pc, status, msg>>
    /\ UNCHANGED <<args, cache, out>>
    /\ UNCHANGED others

subscribe_to_task ==
    \/ subscribe_to_task_user
    \/ subscribe_to_task_loop

Comment == <<"c">>

\* client.create_or_edit_task(task_id=task_id, params={"comment": comment})
comment_on_task ==
    /\ status = "running" /\ pc = "comment"
    /\ \E r \in Submit :
        /\ calls' = Logged("create_or_edit_task", <<>>, None, args.task_ids[1], None,
                           <<[name |-> "comment", value |-> Comment]>>, r)
        /\ IF r.exc # "" THEN Crash(r.exc) ELSE Return
    /\ UNCHANGED <<args, loc, cache, out>>
    /\ UNCHANGED others

---------------------------------------------------------------------------
(* tag, parent *)

\* click.echo(f"Tag '{tag}' not found", err=True), and the command returns
tag_not_found(tag_name, tag) ==
    /\ out' = Append(out, [text |-> "Tag '{}' not found", value |-> Str(tag)])
    /\ Return

\* if tag := client.show_tag(tag_name=tag): ... else: ...
tag_task_show_tag ==
    /\ status = "running" /\ pc = "tag"
    /\ \E r \in show_tag(args.tag) :
        /\ calls' = Logged("show_tag", args.tag, None, 0, r.value, <<>>, r)
        /\ cache' = Remembered("show_tag", args.tag, None, r)
        /\ IF r.exc # ""
           THEN Crash(r.exc) /\ UNCHANGED <<loc, out>>
           ELSE IF Truthy(r.value)
           THEN /\ loc' = [loc EXCEPT !.tag = r.value, !.i = 1]
                /\ pc' = "tag:loop"
                /\ UNCHANGED <<status, msg, out>>
           ELSE /\ tag_not_found(args.tag, r.value)
                /\ loc' = [loc EXCEPT !.tag = r.value]
    /\ UNCHANGED args
    /\ UNCHANGED others

\* for task_id in task_ids: client.assign_tag_to_task(task_id, tag["phid"])
tag_task_loop ==
    /\ status = "running" /\ pc = "tag:loop"
    /\ IF loc.i > Len(args.task_ids)
       THEN Return /\ UNCHANGED <<calls, loc>>
       ELSE \E r \in Submit :
            /\ calls' = Logged("assign_tag_to_task", <<>>, None, args.task_ids[loc.i],
                               loc.tag, <<>>, r)
            /\ IF r.exc # ""
               THEN Crash(r.exc) /\ UNCHANGED loc
               ELSE /\ loc' = [loc EXCEPT !.i = @ + 1]
                    /\ UNCHANGED <<pc, status, msg>>
    /\ UNCHANGED <<args, cache, out>>
    /\ UNCHANGED others

tag_task ==
    \/ tag_task_show_tag
    \/ tag_task_loop

\* what client.show_task answers for --parent-id: no task has the number 0 that
\* stands for an option left out
show_parent_task(parent_id) ==
    {r \in show_task(<<ToString(parent_id)>>) : parent_id # 0 \/ r.outcome # "found"}

\* parent_task = client.show_task(task_id=parent_id)
change_task_parent_show ==
    /\ status = "running" /\ pc = "parent"
    /\ \E r \in show_parent_task(args.parent_id) :
        /\ calls' = Logged("show_task", <<ToString(args.parent_id)>>, None, 0,
                           r.value, <<>>, r)
        /\ IF r.exc # ""
           THEN Crash(r.exc) /\ UNCHANGED loc
           ELSE /\ loc' = [loc EXCEPT !.parent = r.value, !.i = 1]
                /\ pc' = "parent:loop"
                /\ UNCHANGED <<status, msg>>
    /\ UNCHANGED <<args, cache, out>>
    /\ UNCHANGED others

\* for task_id in task_ids: client.set_parent_task_id(task_id, parent_task["phid"])
change_task_parent_loop ==
    /\ status = "running" /\ pc = "parent:loop"
    /\ IF loc.i > Len(args.task_ids)
       THEN Return /\ UNCHANGED <<calls, loc>>
       ELSE IF loc.parent = None
       THEN Crash("TypeError") /\ UNCHANGED <<calls, loc>>
       ELSE \E r \in Submit :
            /\ calls' = Logged("set_parent_task_id", <<>>, None, args.task_ids[loc.i],
                               loc.parent, <<>>, r)
            /\ IF r.exc # ""
               THEN Crash(r.exc) /\ UNCHANGED loc
               ELSE /\ loc' = [loc EXCEPT !.i = @ + 1]
                    /\ UNCHANGED <<pc, status, msg>>
    /\ UNCHANGED <<args, cache, out>>
    /\ UNCHANGED others

change_task_parent ==
    \/ change_task_parent_show
    \/ change_task_parent_loop

---------------------------------------------------------------------------
(* report-done-tasks *)

report_done_tasks_board ==
    /\ status = "running" /\ pc = "report-done-tasks"
    /\ \E r \in get_main_project_or_milestone(args.milestone, DefaultProjectPhid) :
        /\ calls' = Logged("get_main_project_or_milestone", <<>>, DefaultProjectPhid, 0,
                           r.value, <<>>, r)
        /\ cache' = Remembered("get_main_project_or_milestone", <<>>, DefaultProjectPhid, r)
        /\ IF r.exc # ""
           THEN Crash(r.exc) /\ UNCHANGED loc
           ELSE /\ loc' = [loc EXCEPT !.target_project_phid = r.value]
                /\ pc' = "report:source"
                /\ UNCHANGED <<status, msg>>
    /\ UNCHANGED <<args, out>>
    /\ UNCHANGED others

\* column_source_phid = client.find_column_in_project(target_project_phid, source)
report_done_tasks_source ==
    /\ status = "running" /\ pc = "report:source"
    /\ \E r \in find_column_in_project(loc.target_project_phid, args.source) :
        /\ calls' = Logged("find_column_in_project", args.source, loc.target_project_phid,
                           0, r.value, <<>>, r)
        /\ cache' = Remembered("find_column_in_project", args.source,
                               loc.target_project_phid, r)
        /\ IF r.exc # ""
           THEN Crash(r.exc) /\ UNCHANGED loc
           ELSE /\ loc' = [loc EXCEPT !.column_source_phid = r.value]
                /\ pc' = "report:destination"
                /\ UNCHANGED <<status, msg>>
    /\ UNCHANGED <<args, out>>
    /\ UNCHANGED others

\* a destination column looked up on the configured project, not on the resolved board
report_done_tasks_destination_on_default ==
    /\ status = "running" /\ pc = "report:destination"
    /\ \E r \in find_column_in_project(DefaultProjectPhid, args.destination) :
        /\ calls' = Logged("find_column_in_project", args.destination,
                           DefaultProjectPhid, 0, r.value, <<>>, r)
        /\ cache' = Remembered("find_column_in_project", args.destination,
                               DefaultProjectPhid, r)
        /\ IF r.exc # ""
           THEN Crash(r.exc) /\ UNCHANGED loc
           ELSE /\ loc' = [loc EXCEPT !.column_destination_phid = r.value]
                /\ pc' = "report:tasks"
                /\ UNCHANGED <<status, msg>>
    /\ UNCHANGED <<args, out>>
    /\ UNCHANGED others

\* column_destination_phid = client.find_column_in_project(target_project_phid, destination)
report_done_tasks_destination ==
    /\ status = "running" /\ pc = "report:destination"
    /\ \E r \in find_column_in_project(loc.target_project_phid, args.destination) :
        /\ calls' = Logged("find_column_in_project", args.destination,
                           loc.target_project_phid, 0, r.value, <<>>, r)
        /\ cache' = Remembered("find_column_in_project", args.destination,
                               loc.target_project_phid, r)
        /\ IF r.exc # ""
           THEN Crash(r.exc) /\ UNCHANGED loc
           ELSE /\ loc' = [loc EXCEPT !.column_destination_phid = r.value]
                /\ pc' = "report:tasks"
                /\ UNCHANGED <<status, msg>>
    /\ UNCHANGED <<args, out>>
    /\ UNCHANGED others

\* tasks = client.find_tasks_in_column(column_source_phid)
report_done_tasks_tasks ==
    /\ status = "running" /\ pc = "report:tasks"
    /\ \E r \in find_tasks_in_column(loc.column_source_phid) :
        /\ calls' = Logged("find_tasks_in_column", <<>>, loc.column_source_phid, 0,
                           None, <<>>, r)
        /\ IF r.exc # ""
           THEN Crash(r.exc) /\ UNCHANGED loc
           ELSE /\ loc' = [loc EXCEPT !.tasks = r.value, !.i = 1]
                /\ pc' = "report:loop"
                /\ UNCHANGED <<status, msg>>
    /\ UNCHANGED <<args, cache, out>>
    /\ UNCHANGED others

\* for task in tasks: task = client.enrich_task(task); echo the task
report_done_tasks_echo ==
    /\ status = "running" /\ pc = "report:loop"
    /\ IF loc.i > Len(loc.tasks)
       THEN Return /\ UNCHANGED <<calls, out>>
       ELSE \E r \in enrich_task(loc.tasks[loc.i]) :
            /\ calls' = Logged("enrich_task", <<>>, None, loc.tasks[loc.i], r.value, <<>>, r)
            /\ IF r.exc # ""
               THEN Crash(r.exc) /\ UNCHANGED out
               ELSE /\ out' = (IF args.format = "plain"
                               THEN Append(out, [text |-> "=====", value |-> <<>>])
                               ELSE out)
                              \o <<[text |-> "Task: {}",
                                    value |-> <<ToString(loc.tasks[loc.i])>>]>>
                    /\ pc' = "report:move"
                    /\ UNCHANGED <<status, msg>>
    /\ UNCHANGED <<args, loc, cache>>
    /\ UNCHANGED others

\* a move that goes on with the next task when the call fails
report_done_tasks_move_continue ==
    /\ status = "running" /\ pc = "report:move"
    /\ \E r \in Submit :
        /\ calls' = Logged("move_task_to_column", <<>>, None, loc.tasks[loc.i],
                           loc.column_destination_phid, <<>>, r)
        /\ loc' = [loc EXCEPT !.i = @ + 1]
        /\ pc' = "report:loop"
        /\ UNCHANGED <<status, msg>>
    /\ UNCHANGED <<args, cache, out>>
    /\ UNCHANGED others

\* client.move_task_to_column(task["id"], column_destination_phid)
report_done_tasks_move ==
    /\ status = "running" /\ pc = "report:move"
    /\ \E r \in Submit :
        /\ calls' = Logged("move_task_to_column", <<>>, None, loc.tasks[loc.i],
                           loc.column_destination_phid, <<>>, r)
        /\ IF r.exc # ""
           THEN Crash(r.exc) /\ UNCHANGED loc
           ELSE /\ loc' = [loc EXCEPT !.i = @ + 1]
                /\ pc' = "report:loop"
                /\ UNCHANGED <<status, msg>>
    /\ UNCHANGED <<args, cache, out>>
    /\ UNCHANGED others

report_done_tasks ==
    \/ report_done_tasks_board
    \/ report_done_tasks_source
    \/ report_done_tasks_destination
    \/ report_done_tasks_tasks
    \/ report_done_tasks_echo
    \/ report_done_tasks_move

---------------------------------------------------------------------------

Next ==
    \/ move_task
    \/ create_task
    \/ assign_task
    \/ subscribe_to_task
    \/ comment_on_task
    \/ tag_task
    \/ change_task_parent
    \/ report_done_tasks

Spec == Init /\ [][Next]_vars

---------------------------------------------------------------------------
(* The cache file over the life of the process: loaded when the cache module
   is imported, dumped by the function runcli registers with atexit, deleted
   by `cache clear` *)

\* identifiers an earlier invocation resolved and left in the file
WarmEntries ==
    {[op |-> "current_user", name |-> <<>>, scope |-> None, value |-> <<"PHID-USER", "me">>],
     [op |-> "find_user_by_username", name |-> Alice, scope |-> None,
      value |-> UserPhid(Alice)]}

\* what the file may be when the process starts
StartupFiles == {Missing, Corrupt, Stored({}), Stored(WarmEntries)}

\* phable cache clear
ClearArgs == {[NoArgs EXCEPT !.cmd = "cache clear", !.impl = "phable"]}

\* the command lines of the runs that are followed from start to exit: every
\* command, create with one --tags at most
CacheCommands == {a \in Commands : Len(a.tags) <= 1} \cup ClearArgs

\* the process starts: nothing is imported yet
InitCache ==
    /\ args \in CacheCommands
    /\ pc = "import"
    /\ loc = NoLocals
    /\ calls = <<>>
    /\ cache = {}
    /\ status = "running"
    /\ msg = NoMessage
    /\ out = <<>>
    /\ file \in StartupFiles
    /\ fs_ops = <<>>
    /\ atexit = {}
    /\ peer = NoPeer
    /\ call = NoCall
    /\ ret = None

\* what the cache holds after loading the file: its mapping, or nothing when
\* the file is missing or cannot be parsed
load(f) == IF f.state = "stored" THEN f.entries ELSE {}

\* from .cache import cache
import_cache ==
    /\ pc = "import"
    /\ cache' = load(file)
    /\ fs_ops' = Append(fs_ops, "load")
    /\ pc' = "runcli"
    /\ UNCHANGED <<args, loc, calls, status, msg, out, file, atexit, peer, call, ret>>

\* a runcli that forgets to register the dump
not_registered(handlers) == handlers

\* atexit.register(cache.dump)
registered(handlers) == handlers \cup {cache_dump}

\* runcli: register the dump, then run the command (src/phable_cli/cli.py
\* registers it when the module is imported, before runcli is called)
runcli ==
    /\ pc = "runcli"
    /\ atexit' = registered(atexit)
    /\ pc' = args.cmd
    /\ UNCHANGED <<args, loc, calls, cache, status, msg, out, file, fs_ops, peer, call, ret>>

\* a clear that leaves the dump registered
still_registered(handlers) == handlers

\* atexit.unregister(cache.dump)
unregistered(handlers) == handlers \ {cache_dump}

\* cache clear: cache.cache_filepath.unlink(missing_ok=True), and no dump at exit
clear ==
    /\ status = "running" /\ pc = "cache clear"
    /\ file' = Missing
    /\ fs_ops' = Append(fs_ops, "unlink")
    /\ atexit' = unregistered(atexit)
    /\ Return
    /\ UNCHANGED <<args, loc, calls, cache, out, peer, call, ret>>

\* cache.dump: the in-memory mapping is serialized to the file
dump(entries) == Stored(entries)

\* the interpreter exits (the handler returned, click exited on a usage
\* error, or an exception went uncaught) and runs what atexit holds
interpreter_exit ==
    /\ pc = "exit"
    /\ IF cache_dump \in atexit
       THEN /\ file' = dump(cache)
            /\ fs_ops' = Append(fs_ops, "dump")
       ELSE UNCHANGED <<file, fs_ops>>
    /\ pc' = "exited"
    /\ UNCHANGED <<args, loc, calls, cache, status, msg, out, atexit, peer, call, ret>>

NextCache ==
    \/ import_cache
    \/ runcli
    \/ Next
    \/ clear
    \/ interpreter_exit

SpecCache == InitCache /\ [][NextCache]_vars

---------------------------------------------------------------------------
(* What the claims speak of *)

\* the client methods that submit a transaction
MutationOps ==
    {"move_task_to_column", "mark_task_as_in_progress", "mark_task_as_resolved",
     "create_or_edit_task", "assign_task_to_user", "add_user_to_task_subscribers",
     "set_parent_task_id", "assign_tag_to_task"}

IsMutation(c) == c.op \in MutationOps

\* the transactions submitted so far, in order
Submitted == SelectSeq(calls, IsMutation)

\* the transactions submitted so far, each as <<method, task>>
SubmittedOps == [k \in DOMAIN Submitted |-> <<Submitted[k].op, Submitted[k].task>>]

IsPrefix(s, t) == Len(s) <= Len(t) /\ \A k \in DOMAIN s : s[k] = t[k]

\* per task, in input order: its column transaction, then the transactions in follow
RECURSIVE ExpectedMoves(_, _)
ExpectedMoves(ts, follow) ==
    IF ts = <<>> THEN <<>>
    ELSE <<<<"move_task_to_column", Head(ts)>>>>
         \o [k \in DOMAIN follow |-> <<follow[k], Head(ts)>>]
         \o ExpectedMoves(Tail(ts), follow)

\* the run went as the sequence says: never off it, and all of it once the command returns
RunsAs(expected) ==
    /\ IsPrefix(SubmittedOps, expected)
    /\ status = "ok" => SubmittedOps = expected

lower_done == <<"d", "o", "n", "e">>
lower_backlog == <<"b", "a", "c", "k", "l", "o", "g">>
lower_in_progress == <<"i", "n", " ", "p", "r", "o", "g", "r", "e", "s", "s">>
lower_needs_review == <<"n", "e", "e", "d", "s", " ", "r", "e", "v", "i", "e", "w">>

(* C1: moving tasks to a column named "Done" in any letter case submits, per
   task in input order, the task's column transaction and then its resolve
   transaction, and nothing else; moving to "Backlog" submits the column
   transactions only. Every column transaction carries the resolved column. *)
C1_MoveDoneOrder ==
    args.cmd = "move" =>
        /\ lower(args.column) = lower_done =>
               RunsAs(ExpectedMoves(args.task_ids, <<"mark_task_as_resolved">>))
        /\ lower(args.column) = lower_backlog =>
               RunsAs(ExpectedMoves(args.task_ids, <<>>))
        /\ \A k \in DOMAIN Submitted :
               Submitted[k].op = "move_task_to_column" =>
                   Submitted[k].value = ColumnPhid(loc.target_project_phid, args.column)

C1_Witness ==
    /\ args.cmd = "move" /\ status = "ok"
    /\ args.column = DONE /\ args.task_ids = <<1, 2>>
    /\ SubmittedOps = <<<<"move_task_to_column", 1>>, <<"mark_task_as_resolved", 1>>,
                        <<"move_task_to_column", 2>>, <<"mark_task_as_resolved", 2>>>>

(* C2: moving tasks to a column named "in progress" or "needs review" in any
   letter case submits, per task in input order, the task's column transaction
   and then its in-progress transition, and never a resolve transition. *)
C2_MoveInProgressOrder ==
    (args.cmd = "move" /\ lower(args.column) \in {lower_in_progress, lower_needs_review}) =>
        RunsAs(ExpectedMoves(args.task_ids, <<"mark_task_as_in_progress">>))

ResolutionOps == {"get_main_project_or_milestone", "find_column_in_project"}

(* C3: in move, a failed board-or-milestone resolution or a failed column
   resolution is the last thing the command does: no transaction is submitted,
   nothing is tried again, and the command ends in an error (ctx.fail when the
   entity was not found); the per-task loop is entered only after the board and
   then the column, on that board, were resolved. *)
C3_MoveResolutionFailureHalts ==
    args.cmd = "move" =>
        /\ \A k \in DOMAIN calls :
               (calls[k].op \in ResolutionOps /\ calls[k].outcome # "found") =>
                   /\ k = Len(calls)
                   /\ Submitted = <<>>
                   /\ status \in {"fail", "crash"}
                   /\ calls[k].outcome = "notfound" => status = "fail"
        /\ (pc \in {"move:loop", "move:in_progress", "move:resolved"} \/ Submitted # <<>>) =>
               /\ Len(calls) >= 2
               /\ calls[1].op = "get_main_project_or_milestone" /\ calls[1].outcome = "found"
               /\ calls[2].op = "find_column_in_project" /\ calls[2].outcome = "found"

C3_Witness ==
    /\ args.cmd = "move" /\ Len(args.task_ids) = 2 /\ args.milestone
    /\ Len(calls) = 2
    /\ calls[1].outcome = "found"
    /\ calls[2].op = "find_column_in_project" /\ calls[2].outcome = "notfound"
    /\ status = "fail"

(* C4: in move, a failed column or status transaction is the last call of the
   run: no transaction follows for that task or any later one, the call is not
   repeated, and what was submitted before it is only the forward sequence of
   the earlier tasks (no compensating transaction). *)
C4_MoveFailFast ==
    args.cmd = "move" =>
        /\ \A k \in DOMAIN calls :
               (IsMutation(calls[k]) /\ calls[k].outcome = "error") =>
                   k = Len(calls) /\ status \in {"fail", "crash"}
        /\ \E follow \in {<<>>, <<"mark_task_as_in_progress">>, <<"mark_task_as_resolved">>} :
               IsPrefix(SubmittedOps, ExpectedMoves(args.task_ids, follow))

C4_Witness ==
    /\ args.cmd = "move" /\ args.task_ids = <<2, 1>>
    /\ Len(Submitted) = 4
    /\ Submitted[2].outcome = "ok"
    /\ Submitted[4].op = "mark_task_as_resolved" /\ Submitted[4].task = 1
    /\ Submitted[4].outcome = "error"
    /\ status # "running"

LastCall == calls[Len(calls)]

Range(f) == {f[k] : k \in DOMAIN f}

HasField(params, name) == \E k \in DOMAIN params : params[k].name = name

Field(params, name) == params[CHOOSE k \in DOMAIN params : params[k].name = name].value

IsProjectLookup(c) == c.op = "find_project_by_title"

\* the project lookups the tags ask for, in order: for "parent (subproject)" the
\* parent, unscoped, and then the subproject, scoped; else the tag as one title
RECURSIVE ExpectedProjectLookups(_)
ExpectedProjectLookups(tags) ==
    IF tags = <<>> THEN <<>>
    ELSE (IF tag_matches(Head(tags))
          THEN <<[name |-> strip(match_group(Head(tags)).parent),
                  scoped |-> FALSE, adds |-> FALSE],
                 [name |-> strip(match_group(Head(tags)).subproject),
                  scoped |-> TRUE, adds |-> TRUE]>>
          ELSE <<[name |-> Head(tags), scoped |-> FALSE, adds |-> TRUE]>>)
         \o ExpectedProjectLookups(Tail(tags))

\* the identifiers returned by those of the lookups that add a project
RECURSIVE AddedProjects(_, _)
AddedProjects(lookups, expected) ==
    IF lookups = <<>> THEN <<>>
    ELSE (IF Head(expected).adds THEN <<Head(lookups).value>> ELSE <<>>)
         \o AddedProjects(Tail(lookups), Tail(expected))

(* C5: create resolves a tag "PARENT (SUBPROJECT)" as the parent title with no
   parent filter and then the subproject title scoped to the identifier the
   parent lookup returned, and adds the subproject's identifier only; any other
   tag is resolved as one title with no parent filter. A lookup that fails is
   the last call of the run: the command fails and no transaction is
   submitted. *)
C5_TagResolutionOrder ==
    args.cmd = "create" =>
        LET P == SelectSeq(calls, IsProjectLookup)
            E == ExpectedProjectLookups(args.tags)
        IN  /\ Len(P) <= Len(E)
            /\ \A k \in DOMAIN P :
                   /\ P[k].name = E[k].name
                   /\ IF E[k].scoped
                      THEN P[k - 1].outcome = "found" /\ P[k].scope = P[k - 1].value
                      ELSE P[k].scope = None
                   /\ P[k].outcome # "found" =>
                          /\ k = Len(P)
                          /\ LastCall.op = "find_project_by_title"
                          /\ LastCall.outcome = P[k].outcome
                          /\ status \in {"fail", "crash"}
                          /\ Submitted = <<>>
            /\ Submitted # <<>> =>
                   /\ Len(P) = Len(E)
                   /\ args.tags # <<>> =>
                          Field(Submitted[1].params, "projects.add") = AddedProjects(P, E)

C5_Witness ==
    /\ args.cmd = "create" /\ args.tags = <<PaddedTag, UnmatchedTag>>
    /\ status = "ok"
    /\ Len(calls) = 5
    /\ calls[1].name = <<"a">> /\ calls[1].scope = None
    /\ calls[2].name = <<"b", "+">> /\ calls[2].scope = calls[1].value
    /\ calls[3].name = UnmatchedTag /\ calls[3].scope = None
    /\ Field(calls[4].params, "projects.add") = <<calls[2].value, calls[3].value>>

\* the lookups of an entity by the name or number the user gave
EntityLookups ==
    {"find_user_by_username", "find_project_by_title", "show_tag",
     "find_column_in_project", "current_user", "show_task"}

\* the identifiers successful lookups have returned so far
Resolved(n) ==
    {calls[k].value : k \in {j \in 1..n : calls[j].op \in EntityLookups
                                           /\ calls[j].outcome = "found"}}

\* the identifiers a submitted transaction carries
Identifiers(c) ==
    IF c.op = "create_or_edit_task"
    THEN UNION {IF HasField(c.params, f) THEN Range(Field(c.params, f)) ELSE {} :
                  f \in {"projects.add", "parents.set", "subscribers.set"}}
         \cup (IF HasField(c.params, "owner") THEN {Field(c.params, "owner")} ELSE {})
    ELSE IF c.value = None THEN {} ELSE {c.value}

\* a lookup that did not find its entity is followed by no transaction
FailedLookupStops ==
    \A k \in DOMAIN calls :
        (calls[k].op \in EntityLookups /\ calls[k].outcome # "found") =>
            \A j \in DOMAIN calls : j > k => ~IsMutation(calls[j])

(* C6 as stated: every identifier of every submitted transaction was returned
   by a successful lookup earlier in the run, with no exception, and a failed
   lookup is followed by no transaction. *)
C6_EveryIdentifierResolved ==
    /\ \A k \in DOMAIN calls :
           IsMutation(calls[k]) => Identifiers(calls[k]) \subseteq Resolved(k - 1)
    /\ FailedLookupStops

(* C6, amended: every identifier of every submitted transaction was returned by
   a successful lookup earlier in the run, except the configured default
   project, which create places in projects.add, unresolved, when it is given
   no tag; a failed lookup is followed by no transaction. *)
C6_IdentifiersResolvedOrDefault ==
    /\ \A k \in DOMAIN calls :
           IsMutation(calls[k]) =>
               Identifiers(calls[k]) \subseteq
                   Resolved(k - 1) \cup (IF args.cmd = "create" /\ args.tags = <<>>
                                         THEN {DefaultProjectPhid} ELSE {})
    /\ FailedLookupStops

C6_Witness ==
    /\ args.cmd = "create" /\ args.tags = <<SubprojectTag>> /\ args.owner = Alice
    /\ args.cc = <<Bob>> /\ args.parent_id # 0
    /\ Len(Submitted) = 1 /\ Submitted[1].outcome = "ok"
    /\ Cardinality(Identifiers(Submitted[1])) = 4

\* the lookups of a user, project, tag, column or milestone by name
NamedEntityLookups ==
    {"find_user_by_username", "find_project_by_title", "show_tag",
     "find_column_in_project", "get_main_project_or_milestone"}

(* C7: once a user, project, tag, column or milestone is not found, the command
   ends in an error (it does not return normally) and submits nothing after. *)
C7_NotFoundIsFatal ==
    \A k \in DOMAIN calls :
        (calls[k].op \in NamedEntityLookups /\ calls[k].outcome = "notfound") =>
            /\ status \in {"fail", "crash"}
            /\ \A j \in DOMAIN calls : j > k => ~IsMutation(calls[j])

\* the name the not-found message of the run shows, if there is such a message
ReportedName ==
    IF status = "fail" THEN msg.value
    ELSE IF out # <<>> THEN out[Len(out)].value
    ELSE None

(* C8: when a project, user or tag named on the command line is not found, the
   message shows the name that was looked up: the parent title, the subproject
   or flat title, the owner, the cc username, the tag name. *)
C8_MessageNamesTheEntity ==
    (/\ calls # <<>>
     /\ LastCall.op \in {"find_project_by_title", "find_user_by_username", "show_tag"}
     /\ LastCall.outcome = "notfound"
     /\ LastCall.name # None) =>
        ReportedName = LastCall.name

\* the index of the create transaction in the call log
CreateIndex == CHOOSE k \in DOMAIN calls : calls[k].op = "create_or_edit_task"

FoundBefore(n, op, name) ==
    \E k \in 1..(n - 1) : calls[k].op = op /\ calls[k].name = name /\ calls[k].outcome = "found"

\* the project title a tag stands for
TagTitle(tag) == IF tag_matches(tag) THEN strip(match_group(tag).subproject) ELSE tag

(* C9: create submits at most one transaction, a creation (no task attached),
   exactly one when it returns, and only after every tag, the owner, the parent
   task and every cc user were found; its field map holds title, description,
   priority, the projects, then owner, parent and subscribers as given. After a
   failed lookup nothing is submitted. comment submits one edit of its task,
   holding the comment, and nothing else. *)
C9_SubmitOnce ==
    /\ args.cmd = "create" =>
           /\ Len(Submitted) <= 1
           /\ status = "ok" => Len(Submitted) = 1
           /\ \A k \in DOMAIN calls :
                  (calls[k].outcome # "found" /\ calls[k].op # "create_or_edit_task"
                   /\ calls[k].name # <<"new">>) => Submitted = <<>>
           /\ Submitted # <<>> =>
                  LET c == Submitted[1]
                      n == CreateIndex
                  IN  /\ c.op = "create_or_edit_task" /\ c.task = 0
                      /\ \A i \in DOMAIN args.tags :
                             FoundBefore(n, "find_project_by_title", TagTitle(args.tags[i]))
                      /\ \A i \in DOMAIN args.cc :
                             FoundBefore(n, "find_user_by_username", args.cc[i])
                      /\ args.owner # None =>
                             FoundBefore(n, "find_user_by_username", args.owner)
                      /\ args.parent_id # 0 =>
                             FoundBefore(n, "show_task", <<ToString(args.parent_id)>>)
                      /\ [k \in DOMAIN c.params |-> c.params[k].name] =
                             <<"title", "description", "priority", "projects.add">>
                             \o (IF args.owner # None THEN <<"owner">> ELSE <<>>)
                             \o (IF args.parent_id # 0 THEN <<"parents.set">> ELSE <<>>)
                             \o (IF args.cc # <<>> THEN <<"subscribers.set">> ELSE <<>>)
                      /\ args.owner # None => Field(c.params, "owner") = UserPhid(args.owner)
                      /\ args.cc # <<>> =>
                             Field(c.params, "subscribers.set") =
                                 [i \in DOMAIN args.cc |-> UserPhid(args.cc[i])]
    /\ args.cmd = "comment" =>
           /\ calls = Submitted
           /\ Len(Submitted) <= 1
           /\ status # "running" => Len(Submitted) = 1
           /\ Submitted # <<>> =>
                  /\ Submitted[1].op = "create_or_edit_task"
                  /\ Submitted[1].task = args.task_ids[1]
                  /\ Submitted[1].params = <<[name |-> "comment", value |-> Comment]>>

C9_Witness ==
    /\ args.cmd = "create" /\ status = "ok"
    /\ args.tags = <<FlatTag, SubprojectTag>> /\ args.owner = Bob
    /\ args.cc = <<Alice, Bob>> /\ args.parent_id # 0
    /\ Len(Submitted) = 1
    /\ Len(Submitted[1].params) = 7

IsBoardLookup(c) == c.op = "get_main_project_or_milestone"

IsColumnLookup(c) == c.op = "find_column_in_project"

(* C10: a run resolves its board once, to the base project when milestone is
   false and to that project's current milestone when it is true, and every
   column lookup of the run (the column of move; the source and the destination
   column of report-done-tasks) is made on that board; the columns that tasks
   are moved to are columns of that board. *)
C10_OneBoard ==
    /\ Len(SelectSeq(calls, IsBoardLookup)) <= 1
    /\ \A k \in DOMAIN calls :
           IsBoardLookup(calls[k]) =>
               /\ k = 1
               /\ calls[k].outcome = "found" =>
                      calls[k].value = IF args.milestone THEN MilestonePhid(calls[k].scope)
                                       ELSE calls[k].scope
    /\ \A k \in DOMAIN calls :
           IsColumnLookup(calls[k]) =>
               /\ IsBoardLookup(calls[1]) /\ calls[1].outcome = "found"
               /\ calls[k].scope = calls[1].value
    /\ \A k \in DOMAIN calls :
           calls[k].op = "move_task_to_column" =>
               calls[k].value =
                   ColumnPhid(calls[1].value,
                              IF args.cmd = "move" THEN args.column ELSE args.destination)

C10_Witness ==
    /\ args.cmd = "report-done-tasks" /\ args.milestone
    /\ Len(SelectSeq(calls, IsColumnLookup)) = 2
    /\ calls[2].scope = MilestonePhid(DefaultProjectPhid)
    /\ calls[3].scope = MilestonePhid(DefaultProjectPhid)
    /\ Len(Submitted) = 2 /\ status = "ok"

---------------------------------------------------------------------------
(* Two invocations at once. The second one, `peer`, is the same program: it
   loads the file when it starts, registers its dump, resolves identifiers
   into its own in-memory cache and dumps it when it exits. Nothing
   coordinates the two. *)

\* this invocation: assign or subscribe, which resolve a user
ConcurrentCommands == {a \in Commands : a.impl = "phable" /\ a.cmd \in {"assign", "subscribe"}}

\* what the other invocation may resolve while it runs
PeerEntries ==
    {[op |-> "find_user_by_username", name |-> Bob, scope |-> None, value |-> UserPhid(Bob)],
     [op |-> "find_project_by_title", name |-> FlatTag, scope |-> None,
      value |-> ProjectPhid(FlatTag, None)]}

InitConcurrent ==
    /\ args \in ConcurrentCommands
    /\ pc = "import"
    /\ loc = NoLocals
    /\ calls = <<>>
    /\ cache = {}
    /\ status = "running"
    /\ msg = NoMessage
    /\ out = <<>>
    /\ file \in {Missing, Stored(WarmEntries)}
    /\ fs_ops = <<>>
    /\ atexit = {}
    /\ peer = [pc |-> "import", cache |-> {}, atexit |-> {}, exited_last |-> FALSE]
    /\ call = NoCall
    /\ ret = None

\* the peer: from .cache import cache
peer_import ==
    /\ peer.pc = "import"
    /\ peer' = [peer EXCEPT !.pc = "runcli", !.cache = load(file)]
    /\ fs_ops' = Append(fs_ops, "peer.load")
    /\ UNCHANGED <<args, pc, loc, calls, cache, status, msg, out, file, atexit, call, ret>>

\* the peer: runcli registers the dump and runs the command
peer_runcli ==
    /\ peer.pc = "runcli"
    /\ peer' = [peer EXCEPT !.pc = "run", !.atexit = registered(@)]
    /\ UNCHANGED <<args, pc, loc, calls, cache, status, msg, out, file, fs_ops, atexit,
                   call, ret>>

\* the peer: a lookup of its command finds an entity and the cache keeps it
peer_resolve ==
    /\ peer.pc = "run"
    /\ \E e \in PeerEntries \ peer.cache :
           peer' = [peer EXCEPT !.cache = @ \cup {e}]
    /\ UNCHANGED <<args, pc, loc, calls, cache, status, msg, out, file, fs_ops, atexit,
                   call, ret>>

\* the peer: its command ends and its interpreter exits
peer_exit ==
    /\ peer.pc = "run"
    /\ IF cache_dump \in peer.atexit
       THEN /\ file' = dump(peer.cache)
            /\ fs_ops' = Append(fs_ops, "peer.dump")
       ELSE UNCHANGED <<file, fs_ops>>
    /\ peer' = [peer EXCEPT !.pc = "exited", !.exited_last = (pc = "exited")]
    /\ UNCHANGED <<args, pc, loc, calls, cache, status, msg, out, atexit, call, ret>>

NextConcurrent ==
    \/ import_cache
    \/ runcli
    \/ assign_task
    \/ subscribe_to_task
    \/ interpreter_exit
    \/ peer_import
    \/ peer_runcli
    \/ peer_resolve
    \/ peer_exit

SpecConcurrent == InitConcurrent /\ [][NextConcurrent]_vars

---------------------------------------------------------------------------
(* Functions of the program called on their own: `call` holds the function
   and its arguments, `ret` what it returned; no command runs. *)

\* what a command's run would touch, left as it is before any run
run == <<args, loc, calls, cache, status, msg, out, file, fs_ops, atexit, peer>>

Idle ==
    /\ args = NoArgs
    /\ loc = NoLocals
    /\ calls = <<>>
    /\ cache = {}
    /\ status = "running"
    /\ msg = NoMessage
    /\ out = <<>>
    /\ file = Missing
    /\ fs_ops = <<>>
    /\ atexit = {}
    /\ peer = NoPeer

\* the columns a board may have, in the order the API lists them: hidden or
\* not, with the proxy of a milestone or with none
ColumnLists ==
    Lists([hidden : BOOLEAN,
           proxy : {None, <<"PHID-PROJ", "X">>, <<"PHID-PROJ", "Y">>}], MaxColumns)

\* the board for a project whose columns are `columns`: the project, or its
\* current milestone, or "no current milestone"
main_project_or_milestone(milestone, project_phid, columns) ==
    IF ~milestone
    THEN [outcome |-> "found", value |-> project_phid]
    ELSE IF get_project_current_milestone(columns) = None
    THEN [outcome |-> "notfound", value |-> None]
    ELSE [outcome |-> "found", value |-> get_project_current_milestone(columns)]

InitMilestone ==
    /\ Idle
    /\ pc = "call"
    /\ call \in [fn : {"get_main_project_or_milestone"}, milestone : BOOLEAN,
                  project_phid : {None, OtherProjectPhid}, columns : ColumnLists]
    /\ ret = None

\* client.get_main_project_or_milestone(
\*     milestone, project_phid or config.phabricator_default_project_phid)
call_get_main_project_or_milestone ==
    /\ pc = "call" /\ call.fn = "get_main_project_or_milestone"
    /\ ret' = main_project_or_milestone(call.milestone,
                                        base_project("pkg", call.project_phid),
                                        call.columns)
    /\ pc' = "returned"
    /\ UNCHANGED <<run, call>>

SpecMilestone == InitMilestone /\ [][call_get_main_project_or_milestone]_vars

---------------------------------------------------------------------------
(* The transaction encoder of create_or_edit_task. A field map is a sequence
   of entries [name, list, items] in insertion order: a scalar has one item,
   a list has its items in order. The wire parameters are a sequence of
   [key, value], the key "transactions[0][value][1]" written as
   <<"transactions", "0", "value", "1">>. *)

\* the fields create sets to a Python list
ListFields == {"projects.add", "parents.set", "subscribers.set"}

\* the field map of a params dict, each value with its Python type
field_map(params) ==
    [k \in DOMAIN params |->
        [name |-> params[k].name,
         list |-> params[k].name \in ListFields,
         items |-> IF params[k].name \in ListFields THEN params[k].value
                   ELSE <<params[k].value>>]]

\* slot i of the transaction list (Python counts from 0): its type, and its
\* value, or its values under their indexes
encode_slot(i, f) ==
    <<[key |-> <<"transactions", ToString(i - 1), "type">>, value |-> <<f.name>>]>>
    \o (IF f.list
        THEN [j \in DOMAIN f.items |->
                 [key |-> <<"transactions", ToString(i - 1), "value", ToString(j - 1)>>,
                  value |-> f.items[j]]]
        ELSE <<[key |-> <<"transactions", ToString(i - 1), "value">>,
                value |-> f.items[1]]>>)

RECURSIVE encode_from(_, _)
encode_from(fm, i) ==
    IF i > Len(fm) THEN <<>> ELSE encode_slot(i, fm[i]) \o encode_from(fm, i + 1)

\* the wire parameters of a field map; with a task, an edit of that task
encode(fm, task_id) ==
    encode_from(fm, 1)
    \o (IF task_id # 0
        THEN <<[key |-> <<"objectIdentifier">>, value |-> <<ToString(task_id)>>]>>
        ELSE <<>>)

\* field maps to encode: up to MaxFields entries under different names, each
\* a scalar or a list of up to MaxItems items
FieldMaps ==
    LET Names == {"owner", "comment", "projects.add"}
        Items == {<<"u">>, <<"v">>}
        Values == {[list |-> FALSE, items |-> <<x>>] : x \in Items}
                  \cup {[list |-> TRUE, items |-> xs] : xs \in Lists(Items, MaxItems)}
        Entries == {[name |-> n, list |-> v.list, items |-> v.items] :
                      n \in Names, v \in Values}
    IN  {fm \in Lists(Entries, MaxFields) :
            \A j, k \in DOMAIN fm : j # k => fm[j].name # fm[k].name}

\* a field map to encode on its own, or a create command whose field map the
\* handler builds: no --tags, the owner, parent and subscribers as given
InitEncode ==
    \/ /\ Idle
       /\ pc = "call"
       /\ call \in [fn : {"encode"}, field_map : FieldMaps, task_id : {0, 1}]
       /\ ret = None
    \/ /\ Init
       /\ args.cmd = "create" /\ args.tags = <<>> /\ args.template = ""

call_encode ==
    /\ pc = "call" /\ call.fn = "encode"
    /\ ret' = encode(call.field_map, call.task_id)
    /\ pc' = "returned"
    /\ UNCHANGED <<run, call>>

NextEncode ==
    \/ call_encode
    \/ create_task_params
    \/ create_task_tags
    \/ create_task_owner
    \/ create_task_parent
    \/ create_task_cc
    \/ create_task_submit
    \/ create_task_show

SpecEncode == InitEncode /\ [][NextEncode]_vars

---------------------------------------------------------------------------
(* Aliases: AliasedCommandGroup.parse_command *)

\* click.parser.split_arg_string from character i on: shlex in POSIX mode,
\* splitting on whitespace only. `token` is the argument being read (started:
\* it exists, even if empty), `quote` the quote character it is inside of.
\* When the string ends inside quotes the partial token is kept as it is.
RECURSIVE split_from(_, _, _, _, _)
split_from(s, i, token, started, quote) ==
    IF i > Len(s)
    THEN IF started \/ quote # "" THEN <<token>> ELSE <<>>
    ELSE IF quote # ""
    THEN IF s[i] = quote
         THEN split_from(s, i + 1, token, TRUE, "")
         ELSE split_from(s, i + 1, Append(token, s[i]), TRUE, quote)
    ELSE IF s[i] \in Whitespace
    THEN (IF started THEN <<token>> ELSE <<>>) \o split_from(s, i + 1, <<>>, FALSE, "")
    ELSE IF s[i] \in {"'", "\""}
    THEN split_from(s, i + 1, token, TRUE, s[i])
    ELSE split_from(s, i + 1, Append(token, s[i]), TRUE, "")

split_arg_string(s) == split_from(s, 1, <<>>, FALSE, "")

\* config.data.get("aliases", {}): the aliases of the example in the docstring,
\* one with a quoted two-word column, one that names another alias, one whose
\* quote is never closed
Aliases ==
    LET done == <<"d", "o", "n", "e">>
        wip == <<"w", "i", "p">>
        d == <<"d">>
        q == <<"q">>
    IN  [name \in {done, wip, d, q} |->
            CASE name = done ->
                   <<"m", "o", "v", "e", " ", "-", "-", "c", "o", "l", "u", "m", "n", " ",
                     "'", "D", "o", "n", "e", "'", " ", "-", "-", "m", "i", "l", "e", "s",
                     "t", "o", "n", "e">>
              [] name = wip ->
                   <<"m", "o", "v", "e", " ", " ", "-", "-", "c", "o", "l", "u", "m", "n", " ",
                     "\"", "I", "n", " ", "P", "r", "o", "g", "r", "e", "s", "s", "\"", " ">>
              [] name = d -> <<"d", "o", "n", "e">>
              [] OTHER -> <<"t", "a", "g", " ", "-", "-", "t", "a", "g", " ", "'", "a", " ", "b">>]

\* an expansion that is repeated while the first argument is an alias
RECURSIVE parse_command_again(_, _, _)
parse_command_again(aliases, ctx_name, argv) ==
    IF argv = <<>> THEN <<ctx_name>>
    ELSE IF Head(argv) \in DOMAIN aliases
    THEN parse_command_again(aliases, ctx_name,
                             split_arg_string(aliases[Head(argv)]) \o Tail(argv))
    ELSE <<ctx_name>> \o argv

\* parse_command(self, ctx_name, args), self._aliases being `aliases`
parse_command(aliases, ctx_name, argv) ==
    IF argv = <<>> THEN <<ctx_name>>
    ELSE IF Head(argv) \in DOMAIN aliases
    THEN <<ctx_name>> \o split_arg_string(aliases[Head(argv)]) \o Tail(argv)
    ELSE <<ctx_name>> \o argv

\* the words of a command line: alias names, a command, a task
ArgWords ==
    {<<"d", "o", "n", "e">>, <<"w", "i", "p">>, <<"d">>, <<"q">>, <<"m", "o", "v", "e">>,
     <<"T", "1">>}

\* make_context: parsed_args = self.parse_command(info_name, args)
call_parse_command ==
    /\ pc = "call" /\ call.fn = "parse_command"
    /\ ret' = parse_command(call.aliases, call.ctx_name, call.args)
    /\ pc' = "returned"
    /\ UNCHANGED <<run, call>>

---------------------------------------------------------------------------
(* Task identifiers: class Task(int) *)

DigitChars == <<"0", "1", "2", "3", "4", "5", "6", "7", "8", "9">>

\* str(n), as an f-string formats an int
RECURSIVE str_int(_)
str_int(n) ==
    IF n < 0 THEN <<"-">> \o str_int(-n)
    ELSE IF n < 10 THEN <<DigitChars[n + 1]>>
    ELSE str_int(n \div 10) \o <<DigitChars[(n % 10) + 1]>>

\* the number a string of decimal digits writes
RECURSIVE digits_value(_)
digits_value(s) ==
    IF s = <<>> THEN 0
    ELSE 10 * digits_value(SubSeq(s, 1, Len(s) - 1))
         + (CHOOSE d \in 0..9 : DigitChars[d + 1] = s[Len(s)])

\* int(s) for a string of digits with an optional sign; ValueError otherwise
int_str(s) ==
    LET signed == s # <<>> /\ s[1] \in {"+", "-"}
        digits == IF signed THEN Tail(s) ELSE s
    IN  IF digits = <<>> \/ \E k \in DOMAIN digits : \A d \in DOMAIN DigitChars :
                                                       DigitChars[d] # digits[k]
        THEN [exc |-> "ValueError", value |-> 0]
        ELSE [exc |-> "", value |-> IF signed /\ s[1] = "-" THEN -digits_value(digits)
                                     ELSE digits_value(digits)]

\* str.lstrip(chars)
RECURSIVE lstrip_chars(_, _)
lstrip_chars(s, chars) ==
    IF s # <<>> /\ Head(s) \in chars THEN lstrip_chars(Tail(s), chars) ELSE s

\* a conversion that drops one leading "T" and no more
from_str_one_prefix(value) ==
    int_str(IF value # <<>> /\ Head(value) = "T" THEN Tail(value) ELSE value)

\* Task.from_str: int(value.lstrip("T"))
from_str(value) == int_str(lstrip_chars(value, {"T"}))

\* Task.from_int: f"T{value}"
from_int(value) == <<"T">> \o str_int(value)

\* Task.from_int(n), as show_task prints a task number
call_from_int ==
    /\ pc = "call" /\ call.fn = "Task"
    /\ ret' = [text |-> from_int(call.n), input |-> <<>>,
               parsed |-> [exc |-> "", value |-> 0]]
    /\ pc' = "formatted"
    /\ UNCHANGED <<run, call>>

\* Task.from_str, as click converts a task-id argument: of the bare number the
\* user types, of what from_int printed, or of that with more "T"s before it
call_from_str ==
    /\ pc = "formatted" /\ call.fn = "Task"
    /\ LET input == IF call.leading = 0 THEN str_int(call.n)
                    ELSE [k \in 1..(call.leading - 1) |-> "T"] \o ret.text
       IN ret' = [ret EXCEPT !.input = input, !.parsed = from_str(input)]
    /\ pc' = "parsed"
    /\ UNCHANGED <<run, call>>

\* a function is about to be called: parse_command on a command line, with
\* and without aliases configured, or the Task conversions on a task number
InitCalls ==
    /\ Idle
    /\ pc = "call"
    /\ ret = None
    /\ \/ call \in [fn : {"parse_command"}, aliases : {<<>>, Aliases},
                     ctx_name : {<<"p", "h", "a", "b", "l", "e">>},
                     args : Lists(ArgWords, MaxArgs)]
       \/ call \in [fn : {"Task"}, n : 0..MaxTaskNumber, leading : 0..MaxLeading]

NextCalls ==
    \/ call_parse_command
    \/ call_from_int
    \/ call_from_str

SpecCalls == InitCalls /\ [][NextCalls]_vars

---------------------------------------------------------------------------

(* C11: a run of a command other than `cache clear` touches the cache file
   twice: it loads it at startup and dumps the in-memory cache to it, once,
   when the process exits. Nothing is written before the exit, and after the
   exit the file holds the in-memory cache, whether the command returned,
   failed on a resolution or crashed on a remote call. *)
C11_FlushedOnceAtExit ==
    args.cmd # "cache clear" =>
        /\ IsPrefix(fs_ops, <<"load", "dump">>)
        /\ pc # "exited" => (Len(fs_ops) <= 1 /\ file \in StartupFiles)
        /\ pc = "exited" =>
               /\ fs_ops = <<"load", "dump">>
               /\ file = Stored(cache)
               /\ status \in {"ok", "fail", "crash"}

C11_Witness ==
    /\ args.cmd = "move" /\ Len(args.task_ids) = 2
    /\ pc = "exited" /\ status = "crash"
    /\ Len(Submitted) = 3 /\ Submitted[3].outcome = "error"
    /\ fs_ops = <<"load", "dump">>
    /\ file = Stored(cache) /\ Cardinality(cache) = 2

(* C12: after `cache clear` has exited the cache file does not exist, whatever
   it was at startup: the file is unlinked and no dump follows, so what the
   cache loaded at startup is not written back. *)
C12_ClearLeavesNoFile ==
    args.cmd = "cache clear" =>
        /\ IsPrefix(fs_ops, <<"load", "unlink">>)
        /\ pc \in {"exit", "exited"} => (file = Missing /\ fs_ops = <<"load", "unlink">>)
        /\ pc = "exited" => status = "ok"

C12_Witness ==
    /\ args.cmd = "cache clear" /\ pc = "exited"
    /\ cache = WarmEntries
    /\ file = Missing

(* C13: when two invocations overlap, each loading the file at its start and
   dumping its cache at its exit, the file after both have exited is the
   in-memory cache of the one that exited last, entry for entry: not the
   other's, and not the two merged. *)
C13_LastWriterWins ==
    (pc = "exited" /\ peer.pc = "exited") =>
        file = Stored(IF peer.exited_last THEN peer.cache ELSE cache)

C13_Witness ==
    /\ pc = "exited" /\ peer.pc = "exited" /\ ~peer.exited_last
    /\ fs_ops = <<"peer.load", "load", "peer.dump", "dump">>
    /\ peer.cache \ cache # {} /\ cache \ peer.cache # {}
    /\ file = Stored(cache)

\* the calls of the run that resolve the same (method, arguments) as call k
SameKey(j, k) ==
    /\ calls[j].op = calls[k].op
    /\ calls[j].name = calls[k].name
    /\ calls[j].scope = calls[k].scope

(* C14: once a memoized lookup has found its entity, every later resolution
   of the same (method, arguments) in the run is answered by the cache, with
   the same identifier and no remote call: a run makes at most one successful
   remote lookup per key. So a username repeated in --cc, or given as owner
   and in --cc, and a title repeated in --tags, is looked up remotely once. *)
C14_ResolvedOnceThenCached ==
    \A k \in DOMAIN calls : \A j \in 1..(k - 1) :
        (calls[k].op \in CachedOps /\ SameKey(j, k) /\ calls[j].outcome = "found") =>
            /\ ~calls[k].remote
            /\ calls[k].outcome = "found"
            /\ calls[k].value = calls[j].value

C14_Witness ==
    /\ args.cmd = "create" /\ status = "ok"
    /\ args.owner = Alice /\ args.cc = <<Alice, Alice>>
    /\ args.tags = <<FlatTag, FlatTag>>
    /\ Len(calls) = 7
    /\ calls[1].remote /\ ~calls[2].remote /\ calls[2].value = calls[1].value
    /\ calls[3].remote /\ ~calls[4].remote /\ ~calls[5].remote
    /\ calls[5].value = UserPhid(Alice)

\* the columns of the example: a hidden one with proxy X, a visible one with
\* no proxy, a visible one with proxy Y
ExampleColumns ==
    <<[hidden |-> TRUE, proxy |-> <<"PHID-PROJ", "X">>],
      [hidden |-> FALSE, proxy |-> None],
      [hidden |-> FALSE, proxy |-> <<"PHID-PROJ", "Y">>]>>

\* column k of cs is visible and has a proxy
Qualifies(cs, k) == ~cs[k].hidden /\ cs[k].proxy # None

(* C15: board-or-milestone resolution, as move calls it. Without --milestone
   it returns the base project (--project-phid, else the configured one)
   unchanged, whatever the columns. With --milestone it returns the proxy of
   the column that is visible and has a proxy and has no such column before
   it; for the example columns that is Y; when no column is visible with a
   proxy it reports that there is no current milestone. *)
C15_BoardOrMilestone ==
    (pc = "returned" /\ call.fn = "get_main_project_or_milestone") =>
        LET cs == call.columns
            base == IF call.project_phid = None THEN DefaultProjectPhid
                    ELSE call.project_phid
        IN  /\ ~call.milestone => ret = [outcome |-> "found", value |-> base]
            /\ call.milestone =>
                   IF \E k \in DOMAIN cs : Qualifies(cs, k)
                   THEN \E k \in DOMAIN cs :
                            /\ Qualifies(cs, k)
                            /\ \A j \in 1..(k - 1) : ~Qualifies(cs, j)
                            /\ ret = [outcome |-> "found", value |-> cs[k].proxy]
                   ELSE ret = [outcome |-> "notfound", value |-> None]
            /\ (call.milestone /\ cs = ExampleColumns) =>
                   ret.value = <<"PHID-PROJ", "Y">>

C15_Witness ==
    /\ pc = "returned" /\ call.fn = "get_main_project_or_milestone"
    /\ call.milestone /\ call.columns = ExampleColumns
    /\ ret = [outcome |-> "found", value |-> <<"PHID-PROJ", "Y">>]

IsTypeEntry(e) == Len(e.key) = 3 /\ e.key[1] = "transactions" /\ e.key[3] = "type"

\* where the wire parameters w carry the value or the values of slot i
ValueEntries(w, i) ==
    {k \in DOMAIN w : /\ Len(w[k].key) >= 3
                     /\ w[k].key[1] = "transactions"
                     /\ w[k].key[2] = ToString(i - 1)
                     /\ w[k].key[3] = "value"}

\* the wire parameters w are the transaction list of the field map fm: one
\* slot per entry, in order, typed by the entry's name; a scalar as the slot's
\* value, a list as its items under the indexes 0, 1, ... in their order
Encodes(w, fm) ==
    LET T == SelectSeq(w, IsTypeEntry)
    IN  /\ Len(T) = Len(fm)
        /\ \A i \in DOMAIN fm :
               /\ T[i].key = <<"transactions", ToString(i - 1), "type">>
               /\ T[i].value = <<fm[i].name>>
               /\ Cardinality(ValueEntries(w, i)) = Len(fm[i].items)
               /\ IF fm[i].list
                  THEN \A j \in DOMAIN fm[i].items :
                           \E k \in ValueEntries(w, i) :
                               /\ w[k].key = <<"transactions", ToString(i - 1), "value",
                                               ToString(j - 1)>>
                               /\ w[k].value = fm[i].items[j]
                               /\ Cardinality({n \in ValueEntries(w, i) : n < k}) = j - 1
                  ELSE \A k \in ValueEntries(w, i) :
                           /\ w[k].key = <<"transactions", ToString(i - 1), "value">>
                           /\ w[k].value = fm[i].items[1]
        /\ \A k \in DOMAIN w :
               \/ IsTypeEntry(w[k])
               \/ \E i \in DOMAIN fm : k \in ValueEntries(w, i)
               \/ w[k].key = <<"objectIdentifier">>

(* C16: the encoder turns a field map of K scalars and M lists into K+M
   transaction slots, slot j (from 0) typed by the j-th field name in insertion
   order; a list of n items gives n values under the indexes 0..n-1, in the
   list's order, a scalar one value; the wire holds nothing else but the task
   of an edit. The field map create submits has its owner slot before its
   subscribers.set slot. *)
C16_EncoderSlots ==
    /\ (pc = "returned" /\ call.fn = "encode") => Encodes(ret, call.field_map)
    /\ (args.cmd = "create" /\ Submitted # <<>>) =>
           LET w == encode(field_map(Submitted[1].params), Submitted[1].task)
               T == SelectSeq(w, IsTypeEntry)
           IN  /\ Encodes(w, field_map(Submitted[1].params))
               /\ Len(T) = Len(Submitted[1].params)
               /\ (args.owner # None /\ args.cc # <<>>) =>
                      \E j, k \in DOMAIN T :
                          /\ T[j].value = <<"owner">>
                          /\ T[k].value = <<"subscribers.set">>
                          /\ j < k

C16_Witness ==
    /\ pc = "returned" /\ call.fn = "encode" /\ call.task_id = 1
    /\ call.field_map = <<[name |-> "projects.add", list |-> TRUE, items |-> <<<<"v">>, <<"u">>>>],
                          [name |-> "owner", list |-> FALSE, items |-> <<<<"u">>>>],
                          [name |-> "comment", list |-> TRUE, items |-> <<>>]>>
    /\ ret = <<[key |-> <<"transactions", "0", "type">>, value |-> <<"projects.add">>],
               [key |-> <<"transactions", "0", "value", "0">>, value |-> <<"v">>],
               [key |-> <<"transactions", "0", "value", "1">>, value |-> <<"u">>],
               [key |-> <<"transactions", "1", "type">>, value |-> <<"owner">>],
               [key |-> <<"transactions", "1", "value">>, value |-> <<"u">>],
               [key |-> <<"transactions", "2", "type">>, value |-> <<"comment">>],
               [key |-> <<"objectIdentifier">>, value |-> <<"1">>]>>

\* the transaction a batch command submits for each task
BatchOp ==
    [assign |-> "assign_task_to_user", subscribe |-> "add_user_to_task_subscribers",
     parent |-> "set_parent_task_id", tag |-> "assign_tag_to_task"]

\* the lookup a batch command resolves its user, parent task or tag with
BatchLookups == {"current_user", "find_user_by_username", "show_task", "show_tag"}

(* C17: assign, subscribe, parent and tag resolve their user, parent task or
   tag in one lookup, the first call of the run, and submit only once it is
   found; the k-th call after it is the command's transaction for the k-th
   task of the list, carrying the identifier that lookup returned; a call that
   fails is the last call of the run, which ends in an error; a run that
   returns has submitted one transaction for every task. *)
C17_BatchInOrder ==
    (args.cmd \in DOMAIN BatchOp /\ calls # <<>>) =>
        /\ calls[1].op \in BatchLookups
        /\ Len(calls) <= 1 + Len(args.task_ids)
        /\ \A k \in 2..Len(calls) :
               /\ calls[1].outcome = "found"
               /\ calls[k].op = BatchOp[args.cmd]
               /\ calls[k].task = args.task_ids[k - 1]
               /\ calls[k].value = calls[1].value
        /\ \A k \in DOMAIN calls :
               calls[k].outcome = "error" => (k = Len(calls) /\ status = "crash")
        /\ (status = "ok" /\ calls[1].outcome = "found") =>
               Len(calls) = 1 + Len(args.task_ids)

C17_Witness ==
    /\ args.cmd = "parent" /\ args.task_ids = <<2, 1>>
    /\ Len(calls) = 2
    /\ calls[1].op = "show_task" /\ calls[1].outcome = "found"
    /\ calls[2].task = 2 /\ calls[2].value = calls[1].value
    /\ calls[2].outcome = "error"
    /\ status = "crash"

IsTaskLine(e) == e.text = "Task: {}"

\* the tasks printed so far, in order
Printed == [k \in DOMAIN SelectSeq(out, IsTaskLine) |-> SelectSeq(out, IsTaskLine)[k].value]

\* what report-done-tasks calls before its loop, in order
ReportResolution ==
    <<"get_main_project_or_milestone", "find_column_in_project", "find_column_in_project",
      "find_tasks_in_column">>

(* C18: report-done-tasks resolves the board, the source column and the
   destination column and lists the source column's tasks, in that order, and
   any failure there ends the run with nothing printed or moved. It then takes
   the listed tasks in order: it fetches and prints a task, then submits its
   move to the destination column; these moves are the only transactions. A
   call that fails is the last call of the run, so the later tasks are neither
   printed nor moved; a run that returns has printed and moved every task. *)
C18_ReportThenMove ==
    args.cmd = "report-done-tasks" =>
        /\ \A k \in DOMAIN calls :
               /\ k <= 4 => calls[k].op = ReportResolution[k]
               /\ k > 4 =>
                      /\ \A j \in 1..4 : calls[j].outcome = "found"
                      /\ calls[k].op = IF k % 2 = 1 THEN "enrich_task"
                                       ELSE "move_task_to_column"
                      /\ calls[k].task = loc.tasks[(k - 3) \div 2]
               /\ calls[k].outcome # "found" /\ calls[k].outcome # "ok" =>
                      (k = Len(calls) /\ status = "crash")
        /\ Len(calls) <= 4 => (Submitted = <<>> /\ Printed = <<>>)
        /\ \A k \in DOMAIN Submitted :
               /\ Submitted[k].op = "move_task_to_column"
               /\ Submitted[k].task = loc.tasks[k]
               /\ Submitted[k].value = ColumnPhid(calls[1].value, args.destination)
               /\ Len(Printed) >= k
        /\ Len(Printed) <= Len(Submitted) + 1
        /\ \A k \in DOMAIN Printed : Printed[k] = <<ToString(loc.tasks[k])>>
        /\ status = "ok" =>
               /\ Len(Submitted) = Len(loc.tasks)
               /\ Len(Printed) = Len(loc.tasks)

C18_Witness ==
    /\ args.cmd = "report-done-tasks" /\ loc.tasks = <<2, 1>>
    /\ status = "crash"
    /\ Printed = <<<<"2">>>>
    /\ Len(Submitted) = 1 /\ Submitted[1].task = 2 /\ Submitted[1].outcome = "error"

\* what each configured alias stands for, written out word by word
ExpectedParts ==
    [name \in {<<"d", "o", "n", "e">>, <<"w", "i", "p">>, <<"d">>, <<"q">>} |->
        CASE name = <<"d", "o", "n", "e">> -> <<<<"m", "o", "v", "e">>, <<"-", "-", "c", "o", "l", "u", "m", "n">>, <<"D", "o", "n", "e">>, <<"-", "-", "m", "i", "l", "e", "s", "t", "o", "n", "e">>>>
          [] name = <<"w", "i", "p">> -> <<<<"m", "o", "v", "e">>, <<"-", "-", "c", "o", "l", "u", "m", "n">>, <<"I", "n", " ", "P", "r", "o", "g", "r", "e", "s", "s">>>>
          [] name = <<"d">> -> <<<<"d", "o", "n", "e">>>>
          [] OTHER -> <<<<"t", "a", "g">>, <<"-", "-", "t", "a", "g">>, <<"a", " ", "b">>>>]

(* C19: parse_command returns the context name followed by the arguments; the
   arguments are rewritten only when the first one is a configured alias, which is
   then replaced by the words of its pattern (quotes removed, runs of blanks
   skipped) while the remaining arguments follow unchanged and in order; an alias
   name in a later position stays, a pattern that names another alias is not
   expanded again, and an empty list or one whose first argument is no alias comes
   back as it was. *)
C19_AliasExpansion ==
    (pc = "returned" /\ call.fn = "parse_command") =>
        /\ Head(ret) = call.ctx_name
        /\ Tail(ret) = IF /\ call.args # <<>>
                          /\ DOMAIN call.aliases # {}
                          /\ Head(call.args) \in DOMAIN ExpectedParts
                       THEN ExpectedParts[Head(call.args)] \o Tail(call.args)
                       ELSE call.args

C19_Witness ==
    /\ pc = "returned" /\ call.fn = "parse_command"
    /\ DOMAIN call.aliases # {}
    /\ call.args = <<<<"d", "o", "n", "e">>, <<"T", "1">>, <<"d", "o", "n", "e">>>>
    /\ ret = <<<<"p", "h", "a", "b", "l", "e">>, <<"m", "o", "v", "e">>, <<"-", "-", "c", "o", "l", "u", "m", "n">>, <<"D", "o", "n", "e">>, <<"-", "-", "m", "i", "l", "e", "s", "t", "o", "n", "e">>, <<"T", "1">>, <<"d", "o", "n", "e">>>>

\* the number the digits s[k..] write, most significant digit first
RECURSIVE DecimalFrom(_, _)
DecimalFrom(s, k) ==
    IF k > Len(s) THEN 0
    ELSE (CHOOSE d \in 0..9 : DigitChars[d + 1] = s[k]) * 10 ^ (Len(s) - k)
         + DecimalFrom(s, k + 1)

\* s is the decimal writing of n: digits only, no leading zero but for 0 itself
IsDecimalOf(s, n) ==
    /\ s # <<>>
    /\ \A k \in DOMAIN s : \E d \in DOMAIN DigitChars : DigitChars[d] = s[k]
    /\ Len(s) > 1 => s[1] # "0"
    /\ DecimalFrom(s, 1) = n

(* C20: for a task number n >= 0, Task.from_int(n) is the letter T followed by the
   decimal digits of n; Task.from_str of that text is n again; and Task.from_str
   gives n for the bare digits and for the digits behind any number of leading
   T's alike. *)
C20_TaskRoundTrip ==
    (pc \in {"formatted", "parsed"} /\ call.fn = "Task") =>
        /\ Head(ret.text) = "T"
        /\ IsDecimalOf(Tail(ret.text), call.n)
        /\ pc = "parsed" =>
              /\ Len(ret.input) = call.leading + Len(ret.text) - 1
              /\ \A k \in 1..call.leading : ret.input[k] = "T"
              /\ call.leading = 1 => ret.input = ret.text
              /\ ret.parsed = [exc |-> "", value |-> call.n]

C20_Witness ==
    /\ pc = "parsed" /\ call.fn = "Task"
    /\ call.n = 105 /\ call.leading = 3
    /\ ret.text = <<"T", "1", "0", "5">>
    /\ ret.input = <<"T", "T", "T", "1", "0", "5">>
    /\ ret.parsed = [exc |-> "", value |-> 105]

====
